---- MODULE Spec2Model ----
(***************************************************************************)
(* A model of the atto terminal text editor (src/atto.c): the document     *)
(* (rows of raw bytes with their tab-expanded render), the cursor and      *)
(* viewport, the command layer (editorProcessKeypress), the save prompt    *)
(* and the quit confirmation countdown.                                    *)
(*                                                                         *)
(* Bytes are their integer codes.  A row is a record [chars, render];      *)
(* row->size is Len(chars) and row->rsize is Len(render).  Row indices     *)
(* and columns are 0-based as in the source; sequences are 1-based, so     *)
(* row index r is E.row[r + 1] and chars[j] is chars[j + 1].               *)
(***************************************************************************)
EXTENDS Integers, Sequences, FiniteSets, TLC

\* ------------------------------------------------------------ bounds
\* most bytes of the serialized document (every row's bytes and its '\n')
MaxBytes == 4
\* most lines of a file handed to editorOpen on its own
MaxRows == 2
\* most bytes of a line or row handed to a function on its own
MaxLen == 2
\* largest value of E.dirty an edit may produce
MaxDirty == 3
\* most bytes collected by the save prompt
MaxName == 1
\* most reads of standard input after the first byte of a key
MaxPending == 3

\* ------------------------------------------------------------ program constants
ATTO_TAB_STOP == 4
ATTO_QUIT_TIMES == 2
BACKSPACE == 127
ARROW_LEFT == 1000
ARROW_RIGHT == 1001
ARROW_UP == 1002
ARROW_DOWN == 1003
DEL_KEY == 1004
HOME_KEY == 1005
END_KEY == 1006
PAGE_UP == 1007
PAGE_DOWN == 1008

\* CTRL_KEY(k) is ((k) & 0x1F)
CTRL_KEY(k) == k % 32

NUL == 0
TAB == 9
NL == 10
CR == 13
ESC == 27
SPACE == 32
CTRL_H == CTRL_KEY(104)
CTRL_L == CTRL_KEY(108)
CTRL_Q == CTRL_KEY(113)
CTRL_S == CTRL_KEY(115)

\* E.filename == NULL.  A filename of a running editor is never empty: the
\* prompt returns only a non-empty buffer and fopen("") fails at startup.
NULL == << >>

\* the bytes typed into documents and files: 'a' (printable) and TAB (a
\* control byte that no command is bound to)
Bytes == {97, TAB}

\* terminal sizes (ws_row, ws_col) reported by getWindowSize
WinSizes == {<<3, 2>>, <<4, 3>>}
\* the same with a terminal too short to hold a text row
AnyWinSizes == WinSizes \cup {<<2, 2>>}

VARIABLES
    E,          \* struct editorConfig E
    quit_times, \* static int quit_times of editorProcessKeypress
    pc,         \* where the process is: "start" (main before the loop),
                \* "refresh" / "key" (the main loop before editorRefreshScreen /
                \* in editorReadKey), "prompt_refresh" / "prompt_key" (the same
                \* in editorPrompt), "timeout" / "prompt_timeout" (a read of
                \* editorReadKey returned no byte), "exit", "died", "ub" (an
                \* access outside the rows was made), or a step of a harness
    buf,        \* buf of editorPrompt (<< >> outside the prompt)
    quits,      \* history: quit commands received in a row
    edited,     \* history: a row was inserted, deleted or changed since the
                \* last load or successful save
    inp,        \* the file named on the command line until it is read, and the
                \* inputs of the function harnesses
    out         \* history: <<bytes>> handed to write by the last successful save
                \* if no row has changed since (<< >> otherwise), the
                \* result returned by a harness call, and in SpecViewer the
                \* struct editorConfig E of the viewer (src/kilo.c)

vars == <<E, quit_times, pc, buf, quits, edited, inp, out>>

\* ------------------------------------------------------------ status messages
\* E.statusmsg, as the format that was printed and its arguments
Msg(kind, arg) == [kind |-> kind, arg |-> arg]
MsgEmpty == Msg("", << >>)
MsgHelp == Msg("HELP : Ctrl-S = save | Ctrl-Q = quit", << >>)
MsgWarn(n) == Msg("WARNING!!! File has unsaved changes. Press Ctrl-Q %d more times to quit.", <<n>>)
MsgAborted == Msg("Save aborted", << >>)
MsgWritten(len) == Msg("%d bytes written to disk", <<len>>)
\* %s is strerror(errno), one text here whatever the error
MsgIOError == Msg("Can't save! I/O error : %s", << >>)
MsgPrompt(b) == Msg("Save as : %s (ESC to cancel)", b)

\* ------------------------------------------------------------ row operations
size(row) == Len(row.chars)
rsize(row) == Len(row.render)

\* row->chars[j]; chars[size] is the terminating NUL
CharAt(chars, j) == IF j < Len(chars) THEN chars[j + 1] ELSE NUL

\* the loop of editorRowCxToRx counting one column for every byte
RECURSIVE CxToRxLoopNoTabs(_, _, _, _)
CxToRxLoopNoTabs(chars, cx, j, rx) ==
    IF j >= cx THEN rx ELSE CxToRxLoopNoTabs(chars, cx, j + 1, rx + 1)

RECURSIVE CxToRxLoop(_, _, _, _)
CxToRxLoop(chars, cx, j, rx) ==
    IF j >= cx THEN rx
    ELSE LET r1 == IF CharAt(chars, j) = TAB
                   THEN rx + (ATTO_TAB_STOP - 1) - (rx % ATTO_TAB_STOP)
                   ELSE rx
         IN CxToRxLoop(chars, cx, j + 1, r1 + 1)

editorRowCxToRx(row, cx) == CxToRxLoop(row.chars, cx, 0, 0)

RECURSIVE TabPad(_)
TabPad(render) ==
    IF Len(render) % ATTO_TAB_STOP # 0 THEN TabPad(Append(render, SPACE)) ELSE render

\* the second loop of editorUpdateRow with every tab as ATTO_TAB_STOP spaces
RECURSIVE UpdateRowLoopFullTabs(_, _, _)
UpdateRowLoopFullTabs(chars, j, render) ==
    IF j >= Len(chars) THEN render
    ELSE UpdateRowLoopFullTabs(chars, j + 1,
                       IF chars[j + 1] = TAB
                       THEN render \o [i \in 1..ATTO_TAB_STOP |-> SPACE]
                       ELSE Append(render, chars[j + 1]))

RECURSIVE UpdateRowLoop(_, _, _)
UpdateRowLoop(chars, j, render) ==
    IF j >= Len(chars) THEN render
    ELSE UpdateRowLoop(chars, j + 1,
                       IF chars[j + 1] = TAB
                       THEN TabPad(Append(render, SPACE))
                       ELSE Append(render, chars[j + 1]))

editorUpdateRow(row) == [row EXCEPT !.render = UpdateRowLoop(row.chars, 0, << >>)]

\* memmove of the tail of an array one place up, then a store at index at
InsertAt(s, at, x) == SubSeq(s, 1, at) \o <<x>> \o SubSeq(s, at + 1, Len(s))
\* memmove of the tail of an array one place down over index at
RemoveAt(s, at) == SubSeq(s, 1, at) \o SubSeq(s, at + 2, Len(s))

\* editorInsertRow putting the row last when at is outside [0, numrows]
editorInsertRowAtEnd(e, at, s) ==
    LET at1 == IF at < 0 \/ at > e.numrows THEN e.numrows ELSE at
    IN [e EXCEPT !.row = InsertAt(@, at1, editorUpdateRow([chars |-> s, render |-> << >>])),
                 !.numrows = @ + 1,
                 !.dirty = @ + 1]

editorInsertRow(e, at, s) ==
    IF at < 0 \/ at > e.numrows THEN e
    ELSE [e EXCEPT !.row = InsertAt(@, at, editorUpdateRow([chars |-> s, render |-> << >>])),
                   !.numrows = @ + 1,
                   !.dirty = @ + 1]

editorDelRow(e, at) ==
    IF at < 0 \/ at >= e.numrows THEN e
    ELSE [e EXCEPT !.row = RemoveAt(@, at),
                   !.numrows = @ - 1,
                   !.dirty = @ + 1]

\* editorRowInsertChar putting the byte at the end of the row whatever at is
editorRowInsertCharAtEnd(e, r, at, c) ==
    LET row == e.row[r + 1]
    IN [e EXCEPT !.row[r + 1] = editorUpdateRow([row EXCEPT !.chars = Append(@, c)]),
                 !.dirty = @ + 1]

\* the row is &E.row[r]
editorRowInsertChar(e, r, at, c) ==
    LET row == e.row[r + 1]
        at1 == IF at < 0 \/ at > size(row) THEN size(row) ELSE at
    IN [e EXCEPT !.row[r + 1] = editorUpdateRow([row EXCEPT !.chars = InsertAt(@, at1, c)]),
                 !.dirty = @ + 1]

\* editorRowAppendString with the memcpy at the start of the row, over what it holds
editorRowAppendStringOver(e, r, s) ==
    [e EXCEPT !.row[r + 1] = editorUpdateRow([@ EXCEPT !.chars = s]),
              !.dirty = @ + 1]

editorRowAppendString(e, r, s) ==
    [e EXCEPT !.row[r + 1] = editorUpdateRow([@ EXCEPT !.chars = @ \o s]),
              !.dirty = @ + 1]

\* editorRowDelChar without ++E.dirty
editorRowDelCharNoDirty(e, r, at) ==
    LET row == e.row[r + 1]
    IN IF at < 0 \/ at >= size(row) THEN e
       ELSE [e EXCEPT !.row[r + 1] = editorUpdateRow([row EXCEPT !.chars = RemoveAt(@, at)])]

\* editorRowDelChar with the memmove one byte too far to the right
editorRowDelCharOffByOne(e, r, at) ==
    LET row == e.row[r + 1]
        at1 == IF at + 1 < size(row) THEN at + 1 ELSE at
    IN IF at < 0 \/ at >= size(row) THEN e
       ELSE [e EXCEPT !.row[r + 1] = editorUpdateRow([row EXCEPT !.chars = RemoveAt(@, at1)]),
                      !.dirty = @ + 1]

editorRowDelChar(e, r, at) ==
    LET row == e.row[r + 1]
    IN IF at < 0 \/ at >= size(row) THEN e
       ELSE [e EXCEPT !.row[r + 1] = editorUpdateRow([row EXCEPT !.chars = RemoveAt(@, at)]),
                      !.dirty = @ + 1]

\* ------------------------------------------------------------ editor operations
\* editorInsertChar without E.cx++
editorInsertCharNoAdvance(e, c) ==
    LET e1 == IF e.cy = e.numrows THEN editorInsertRow(e, e.numrows, << >>) ELSE e
    IN editorRowInsertChar(e1, e1.cy, e1.cx, c)

editorInsertChar(e, c) ==
    LET e1 == IF e.cy = e.numrows THEN editorInsertRow(e, e.numrows, << >>) ELSE e
    IN [editorRowInsertChar(e1, e1.cy, e1.cx, c) EXCEPT !.cx = @ + 1]

\* editorInsertNewLine without editorUpdateRow on the row that was cut
editorInsertNewLineStale(e) ==
    LET e1 == IF e.cx = 0
              THEN editorInsertRow(e, e.cy, << >>)
              ELSE LET row == e.row[e.cy + 1]
                       e2 == editorInsertRow(e, e.cy + 1, SubSeq(row.chars, e.cx + 1, size(row)))
                   IN [e2 EXCEPT !.row[e.cy + 1] = [@ EXCEPT !.chars = SubSeq(@, 1, e.cx)]]
    IN [e1 EXCEPT !.cy = @ + 1, !.cx = 0]

editorInsertNewLine(e) ==
    LET e1 == IF e.cx = 0
              THEN editorInsertRow(e, e.cy, << >>)
              ELSE LET row == e.row[e.cy + 1]
                       e2 == editorInsertRow(e, e.cy + 1, SubSeq(row.chars, e.cx + 1, size(row)))
                   IN [e2 EXCEPT !.row[e.cy + 1] =
                           editorUpdateRow([@ EXCEPT !.chars = SubSeq(@, 1, e.cx)])]
    IN [e1 EXCEPT !.cy = @ + 1, !.cx = 0]

\* editorDelChar returning at the start of every row, not of the first only
editorDelCharNoMerge(e) ==
    IF e.cy = e.numrows THEN e
    ELSE IF e.cx = 0 THEN e
    ELSE [editorRowDelChar(e, e.cy, e.cx - 1) EXCEPT !.cx = @ - 1]

\* editorDelChar taking the cursor column after the rows are joined
editorDelCharCursorAfterJoin(e) ==
    IF e.cy = e.numrows THEN e
    ELSE IF e.cx = 0 /\ e.cy = 0 THEN e
    ELSE IF e.cx > 0
         THEN [editorRowDelChar(e, e.cy, e.cx - 1) EXCEPT !.cx = @ - 1]
         ELSE LET row == e.row[e.cy + 1]
                  e2 == editorRowAppendString(e, e.cy - 1, row.chars)
                  e3 == editorDelRow(e2, e.cy)
              IN [e3 EXCEPT !.cy = @ - 1, !.cx = size(e3.row[e.cy])]

editorDelChar(e) ==
    IF e.cy = e.numrows THEN e
    ELSE IF e.cx = 0 /\ e.cy = 0 THEN e
    ELSE IF e.cx > 0
         THEN [editorRowDelChar(e, e.cy, e.cx - 1) EXCEPT !.cx = @ - 1]
         ELSE LET row == e.row[e.cy + 1]
                  e1 == [e EXCEPT !.cx = size(e.row[e.cy])]
                  e2 == editorRowAppendString(e1, e.cy - 1, row.chars)
                  e3 == editorDelRow(e2, e.cy)
              IN [e3 EXCEPT !.cy = @ - 1]

\* ------------------------------------------------------------ file i/o
\* the second loop of editorRowsToString with '\n' between rows only
RECURSIVE RowsToStringLoopBetween(_, _, _)
RowsToStringLoopBetween(rows, j, b) ==
    IF j >= Len(rows) THEN b
    ELSE RowsToStringLoopBetween(rows, j + 1,
            (b \o rows[j + 1].chars) \o (IF j + 1 < Len(rows) THEN <<NL>> ELSE << >>))

\* the first loop of editorRowsToString: totlen
RECURSIVE TotLenLoop(_, _, _)
TotLenLoop(rows, j, totlen) ==
    IF j >= Len(rows) THEN totlen
    ELSE TotLenLoop(rows, j + 1, totlen + size(rows[j + 1]) + 1)

\* *buflen of editorRowsToString
editorRowsToStringLen(e) == TotLenLoop(SubSeq(e.row, 1, e.numrows), 0, 0)

RECURSIVE RowsToStringLoop(_, _, _)
RowsToStringLoop(rows, j, b) ==
    IF j >= Len(rows) THEN b
    ELSE RowsToStringLoop(rows, j + 1, (b \o rows[j + 1].chars) \o <<NL>>)

\* editorRowsToString stopping at the cursor's row
editorRowsToStringToCursor(e) ==
    RowsToStringLoop(SubSeq(e.row, 1, IF e.cy < e.numrows THEN e.cy ELSE e.numrows), 0, << >>)

\* the buffer returned; *buflen is its length
editorRowsToString(e) == RowsToStringLoop(SubSeq(e.row, 1, e.numrows), 0, << >>)

\* getline: the number of bytes of the first line of f, its '\n' included
RECURSIVE LineLen(_, _)
LineLen(f, n) ==
    IF n >= Len(f) THEN Len(f)
    ELSE IF f[n + 1] = NL THEN n + 1
    ELSE LineLen(f, n + 1)

\* what is left of the stream after one getline
AfterLine(f) == SubSeq(f, LineLen(f, 0) + 1, Len(f))

RECURSIVE StripEol(_)
StripEol(line) ==
    IF Len(line) > 0 /\ (line[Len(line)] = NL \/ line[Len(line)] = CR)
    THEN StripEol(SubSeq(line, 1, Len(line) - 1))
    ELSE line

\* the while loop of editorOpen over the unread part f of the stream
\* (getline returns -1 at end of file)
RECURSIVE OpenLoop(_, _)
OpenLoop(e, f) ==
    IF f = << >> THEN e
    ELSE OpenLoop(editorInsertRow(e, e.numrows, StripEol(SubSeq(f, 1, LineLen(f, 0)))),
                  AfterLine(f))

\* the getline call before the loop reads a line that is never inserted
editorOpen(e, filename, f) ==
    [OpenLoop([e EXCEPT !.filename = filename], AfterLine(f)) EXCEPT !.dirty = 0]

\* editorSave's system calls: all succeed, or open, ftruncate or write fails
SaveOutcomes == {"ok", "open", "ftruncate", "write"}

\* editorSave from the call of editorRowsToString on (E.filename is set)
editorSaveWrite(e, outcome) ==
    LET len == Len(editorRowsToString(e))
    IN IF outcome = "ok"
       THEN [e EXCEPT !.dirty = 0, !.statusmsg = MsgWritten(len)]
       ELSE [e EXCEPT !.statusmsg = MsgIOError]

\* ------------------------------------------------------------ output
\* editorScroll with rowoff = cy - screenrows for cy - screenrows + 1
editorScrollOffByOne(e) ==
    LET e1 == [e EXCEPT !.rx = IF e.cy < e.numrows
                               THEN editorRowCxToRx(e.row[e.cy + 1], e.cx)
                               ELSE 0]
        e2 == IF e1.cy < e1.rowoff THEN [e1 EXCEPT !.rowoff = e1.cy] ELSE e1
        e3 == IF e2.cy >= e2.rowoff + e2.screenrows
              THEN [e2 EXCEPT !.rowoff = e2.cy - e2.screenrows] ELSE e2
        e4 == IF e3.rx < e3.coloff THEN [e3 EXCEPT !.coloff = e3.rx] ELSE e3
    IN IF e4.rx >= e4.coloff + e4.screencols
       THEN [e4 EXCEPT !.coloff = e4.rx - e4.screencols + 1] ELSE e4

\* editorScroll bringing the cursor back into the window, not the window to the cursor
editorScrollMovesCursor(e) ==
    LET e1 == [e EXCEPT !.rx = IF e.cy < e.numrows
                               THEN editorRowCxToRx(e.row[e.cy + 1], e.cx)
                               ELSE 0]
        e2 == IF e1.cy < e1.rowoff THEN [e1 EXCEPT !.rowoff = e1.cy] ELSE e1
        e3 == IF e2.cy >= e2.rowoff + e2.screenrows
              THEN [e2 EXCEPT !.cy = e2.rowoff + e2.screenrows - 1] ELSE e2
        e4 == IF e3.rx < e3.coloff THEN [e3 EXCEPT !.coloff = e3.rx] ELSE e3
    IN IF e4.rx >= e4.coloff + e4.screencols
       THEN [e4 EXCEPT !.coloff = e4.rx - e4.screencols + 1] ELSE e4

editorScroll(e) ==
    LET e1 == [e EXCEPT !.rx = IF e.cy < e.numrows
                               THEN editorRowCxToRx(e.row[e.cy + 1], e.cx)
                               ELSE 0]
        e2 == IF e1.cy < e1.rowoff THEN [e1 EXCEPT !.rowoff = e1.cy] ELSE e1
        e3 == IF e2.cy >= e2.rowoff + e2.screenrows
              THEN [e2 EXCEPT !.rowoff = e2.cy - e2.screenrows + 1] ELSE e2
        e4 == IF e3.rx < e3.coloff THEN [e3 EXCEPT !.coloff = e3.rx] ELSE e3
    IN IF e4.rx >= e4.coloff + e4.screencols
       THEN [e4 EXCEPT !.coloff = e4.rx - e4.screencols + 1] ELSE e4

\* the state editorRefreshScreen changes is the state editorScroll changes
editorRefreshScreen(e) == editorScroll(e)

\* ------------------------------------------------------------ the frame
\* the texts of the source as bytes
\* "Atto editor -- version %s" with ATTO_VERSION "0.1"
Welcome == <<65, 116, 116, 111, 32, 101, 100, 105, 116, 111, 114, 32, 45, 45, 32, 118, 101, 114, 115, 105, 111, 110, 32, 48, 46, 49>>
\* "[No Name]"
NoName == <<91, 78, 111, 32, 78, 97, 109, 101, 93>>
\* " - ", " lines " and "(modified)" of the status format "%.20s - %d lines %s"
StatusDash == <<32, 45, 32>>
StatusLines == <<32, 108, 105, 110, 101, 115, 32>>
StatusModified == <<40, 109, 111, 100, 105, 102, 105, 101, 100, 41>>
\* "~" and "/"
Tilde == <<126>>
Slash == <<47>>

Spaces(n) == [i \in 1..n |-> SPACE]
Min(a, b) == IF a < b THEN a ELSE b

\* %d of an int that is not negative
RECURSIVE Decimal(_)
Decimal(n) == IF n < 10 THEN <<48 + n>> ELSE Decimal(n \div 10) \o <<48 + (n % 10)>>

\* the welcome branch of editorDrawRows
WelcomeLine(e) ==
    LET welcomelen == Min(Len(Welcome), e.screencols)
        padding == (e.screencols - welcomelen) \div 2
    IN (IF padding # 0 THEN Tilde \o Spaces(padding - 1) ELSE << >>)
          \o SubSeq(Welcome, 1, welcomelen)

\* what editorDrawRows with the welcome message one row too low draws
editorDrawRowsWelcomeLower(e) ==
    [y1 \in 1..e.screenrows |->
        LET y == y1 - 1
            filerow == y + e.rowoff
        IN IF filerow >= e.numrows
           THEN IF e.numrows = 0 /\ y = (e.screenrows \div 3) + 1 THEN WelcomeLine(e)
                ELSE Tilde
           ELSE LET len == Min(IF rsize(e.row[filerow + 1]) - e.coloff < 0 THEN 0
                               ELSE rsize(e.row[filerow + 1]) - e.coloff,
                               e.screencols)
                IN SubSeq(e.row[filerow + 1].render, e.coloff + 1, e.coloff + len)]

\* what editorDrawRows drawing every row from its first column draws
editorDrawRowsFromFirstColumn(e) ==
    [y1 \in 1..e.screenrows |->
        LET y == y1 - 1
            filerow == y + e.rowoff
        IN IF filerow >= e.numrows
           THEN IF e.numrows = 0 /\ y = e.screenrows \div 3 THEN WelcomeLine(e)
                ELSE Tilde
           ELSE SubSeq(e.row[filerow + 1].render, 1,
                       Min(rsize(e.row[filerow + 1]), e.screencols))]

\* what editorDrawRows draws: the text of each of the screenrows text rows
\* (each is followed by "\x1b[K\r\n")
editorDrawRows(e) ==
    [y1 \in 1..e.screenrows |->
        LET y == y1 - 1
            filerow == y + e.rowoff
        IN IF filerow >= e.numrows
           THEN IF e.numrows = 0 /\ y = e.screenrows \div 3 THEN WelcomeLine(e)
                ELSE Tilde
           ELSE LET len == Min(IF rsize(e.row[filerow + 1]) - e.coloff < 0 THEN 0
                               ELSE rsize(e.row[filerow + 1]) - e.coloff,
                               e.screencols)
                IN SubSeq(e.row[filerow + 1].render, e.coloff + 1, e.coloff + len)]

\* the while loop of editorDrawStatusBar without the branch for rstatus
RECURSIVE StatusPadSpacesOnly(_, _, _, _)
StatusPadSpacesOnly(text, len, cols, rstatus) ==
    IF len >= cols THEN text
    ELSE StatusPadSpacesOnly(Append(text, SPACE), len + 1, cols, rstatus)

\* the while loop of editorDrawStatusBar
RECURSIVE StatusPad(_, _, _, _)
StatusPad(text, len, cols, rstatus) ==
    IF len >= cols THEN text
    ELSE IF cols - len = Len(rstatus) THEN text \o rstatus
    ELSE StatusPad(Append(text, SPACE), len + 1, cols, rstatus)

\* what editorDrawStatusBar draws between "\x1b[7m" and "\x1b[m"
editorDrawStatusBar(e) ==
    LET name == IF e.filename # NULL THEN SubSeq(e.filename, 1, Min(Len(e.filename), 20))
                ELSE NoName
        status == name \o StatusDash \o Decimal(e.numrows) \o StatusLines
                     \o (IF e.dirty # 0 THEN StatusModified ELSE << >>)
        rstatus == Decimal(e.cy + 1) \o Slash \o Decimal(e.numrows)
        len == Min(Len(status), e.screencols)
    IN StatusPad(SubSeq(status, 1, len), len, e.screencols, rstatus)

\* ------------------------------------------------------------ input
\* editorMoveCursor without the snap of cx to the end of the new row
editorMoveCursorNoSnap(e, k) ==
    LET hasrow == e.cy < e.numrows
    IN CASE k = ARROW_LEFT ->
              IF e.cx # 0 THEN [e EXCEPT !.cx = @ - 1]
              ELSE IF e.cy > 0
                   THEN [e EXCEPT !.cy = @ - 1, !.cx = size(e.row[e.cy])]
                   ELSE e
         [] k = ARROW_RIGHT ->
              IF hasrow /\ e.cx < size(e.row[e.cy + 1]) THEN [e EXCEPT !.cx = @ + 1]
              ELSE IF hasrow /\ e.cx = size(e.row[e.cy + 1])
                   THEN [e EXCEPT !.cy = @ + 1, !.cx = 0]
                   ELSE e
         [] k = ARROW_UP ->
              IF e.cy # 0 THEN [e EXCEPT !.cy = @ - 1] ELSE e
         [] k = ARROW_DOWN ->
              IF e.cy < e.numrows THEN [e EXCEPT !.cy = @ + 1] ELSE e
         [] OTHER -> e

editorMoveCursor(e, k) ==
    LET hasrow == e.cy < e.numrows
        e1 == CASE k = ARROW_LEFT ->
                     IF e.cx # 0 THEN [e EXCEPT !.cx = @ - 1]
                     ELSE IF e.cy > 0
                          THEN [e EXCEPT !.cy = @ - 1, !.cx = size(e.row[e.cy])]
                          ELSE e
                [] k = ARROW_RIGHT ->
                     IF hasrow /\ e.cx < size(e.row[e.cy + 1]) THEN [e EXCEPT !.cx = @ + 1]
                     ELSE IF hasrow /\ e.cx = size(e.row[e.cy + 1])
                          THEN [e EXCEPT !.cy = @ + 1, !.cx = 0]
                          ELSE e
                [] k = ARROW_UP ->
                     IF e.cy # 0 THEN [e EXCEPT !.cy = @ - 1] ELSE e
                [] k = ARROW_DOWN ->
                     IF e.cy < e.numrows THEN [e EXCEPT !.cy = @ + 1] ELSE e
                [] OTHER -> e
        rowlen == IF e1.cy >= e1.numrows THEN 0 ELSE size(e1.row[e1.cy + 1])
    IN IF e1.cx > rowlen THEN [e1 EXCEPT !.cx = rowlen] ELSE e1

\* while(times--) editorMoveCursor(k)
RECURSIVE MoveTimes(_, _, _)
MoveTimes(e, k, times) ==
    IF times = 0 THEN e ELSE MoveTimes(editorMoveCursor(e, k), k, times - 1)

\* the PAGE_UP / PAGE_DOWN case of editorProcessKeypress
PageMove(e, c) ==
    LET e1 == IF c = PAGE_UP THEN [e EXCEPT !.cy = e.rowoff]
              ELSE LET y == e.rowoff + e.screenrows - 1
                   IN [e EXCEPT !.cy = IF y > e.numrows THEN e.numrows ELSE y]
    IN MoveTimes(e1, IF c = PAGE_UP THEN ARROW_UP ELSE ARROW_DOWN, e.screenrows)

\* the BACKSPACE / CTRL_KEY('h') / DEL_KEY case of editorProcessKeypress
DeleteKey(e, c) ==
    editorDelChar(IF c = DEL_KEY THEN editorMoveCursor(e, ARROW_RIGHT) ELSE e)

\* the END_KEY case of editorProcessKeypress
EndKey(e) == IF e.cy < e.numrows THEN [e EXCEPT !.cx = size(e.row[e.cy + 1])] ELSE e

\* ------------------------------------------------------------ init
initEditor(ws) ==
    [cx |-> 0, cy |-> 0, rx |-> 0, rowoff |-> 0, coloff |-> 0,
     screenrows |-> ws[1] - 2, screencols |-> ws[2],
     numrows |-> 0, row |-> << >>, dirty |-> 0, filename |-> NULL,
     statusmsg |-> MsgEmpty]

\* ------------------------------------------------------------ memory safety
\* every row the operation reads or writes is a row of the document
InsertCharInBounds(e) == e.cy <= e.numrows
InsertNewLineInBounds(e) ==
    e.cx = 0 \/ (e.cy < e.numrows /\ e.cx <= size(e.row[e.cy + 1]))
DelCharInBounds(e) == e.cy <= e.numrows
MoveCursorInBounds(e, k) ==
    (k = ARROW_LEFT /\ e.cx = 0 /\ e.cy > 0) => e.cy - 1 < e.numrows
DeleteKeyInBounds(e, c) ==
    IF c = DEL_KEY
    THEN MoveCursorInBounds(e, ARROW_RIGHT) /\ DelCharInBounds(editorMoveCursor(e, ARROW_RIGHT))
    ELSE DelCharInBounds(e)
\* editorRowCxToRx reads chars[0 .. cx - 1]; chars[size] is allocated
ScrollInBounds(e) == e.cy < e.numrows => e.cx <= size(e.row[e.cy + 1]) + 1

\* ------------------------------------------------------------ the state space explored
WithinBounds(e) ==
    /\ Len(editorRowsToString(e)) <= MaxBytes
    /\ e.cy <= MaxBytes + 1
    /\ e.dirty <= MaxDirty

\* lines of at most MaxLen bytes
RECURSIVE SeqsUpTo(_, _)
SeqsUpTo(S, n) ==
    IF n = 0 THEN {<< >>}
    ELSE LET shorter == SeqsUpTo(S, n - 1)
         IN shorter \cup {Append(s, x) : s \in shorter, x \in S}

Lines == SeqsUpTo(Bytes, MaxLen)

\* the inputs of a run: the command line of main, or the arguments of a harness
Input(arg, lines, file, col, c) ==
    [arg |-> arg, lines |-> lines, file |-> file, col |-> col, c |-> c]
NoInput == Input(FALSE, << >>, << >>, 0, 0)

\* argv[1] and the files it may name
ArgName == <<97>>
ArgFiles == {<< >>, <<97, NL, TAB, NL, 97>>}

\* ------------------------------------------------------------ main
\* main up to the loop: editorOpen if a file is named, then the help message
Start ==
    /\ pc = "start"
    /\ E' = [(IF inp.arg THEN editorOpen(E, ArgName, inp.file) ELSE E)
                EXCEPT !.statusmsg = MsgHelp]
    /\ pc' = "refresh"
    /\ inp' = NoInput
    /\ UNCHANGED <<quit_times, buf, quits, edited, out>>

\* editorRefreshScreen in the main loop
Refresh ==
    /\ pc = "refresh"
    /\ IF ScrollInBounds(E)
       THEN E' = editorRefreshScreen(E) /\ pc' = "key"
       ELSE E' = E /\ pc' = "ub"
    /\ UNCHANGED <<quit_times, buf, quits, edited, inp, out>>

\* history of write(fd, buf, len) in editorSave: a save that succeeded hands
\* over the serialized document, kept as <<bytes>> until a row changes
Written(e2, saved) ==
    IF saved THEN <<editorRowsToString(e2)>>
    ELSE IF e2.row # E.row THEN << >>
    ELSE out

\* the end of editorProcessKeypress without quit_times = ATTO_QUIT_TIMES
FinishNoReset(e2, inbounds, saved) ==
    /\ IF inbounds
       THEN /\ WithinBounds(e2)
            /\ E' = e2
            /\ pc' = "refresh"
            /\ quits' = 0
            /\ edited' = (~saved /\ (edited \/ e2.row # E.row))
            /\ out' = Written(e2, saved)
            /\ buf' = << >>
            /\ UNCHANGED quit_times
       ELSE /\ pc' = "ub"
            /\ UNCHANGED <<E, quit_times, quits, edited, buf, out>>
    /\ UNCHANGED inp

\* a key case that runs to the end of editorProcessKeypress: the editor
\* state becomes e2 if every access was in bounds; saved tells a successful
\* save (buf of a prompt that returned is freed or handed over)
Finish(e2, inbounds, saved) ==
    /\ IF inbounds
       THEN /\ WithinBounds(e2)
            /\ E' = e2
            /\ quit_times' = ATTO_QUIT_TIMES
            /\ pc' = "refresh"
            /\ quits' = 0
            /\ edited' = (~saved /\ (edited \/ e2.row # E.row))
            /\ out' = Written(e2, saved)
            /\ buf' = << >>
       ELSE /\ pc' = "ub"
            /\ UNCHANGED <<E, quit_times, quits, edited, buf, out>>
    /\ UNCHANGED inp

Handled(e2, inbounds) == Finish(e2, inbounds, FALSE)

\* switch(c) of editorProcessKeypress: the case taken for key c
KeyCase(c) ==
    CASE c = CR -> "enter"
      [] c = CTRL_Q -> "quit"
      [] c = CTRL_S -> "save"
      [] c = HOME_KEY -> "home"
      [] c = END_KEY -> "end"
      [] c \in {BACKSPACE, CTRL_H, DEL_KEY} -> "delete"
      [] c \in {PAGE_UP, PAGE_DOWN} -> "page"
      [] c \in {ARROW_UP, ARROW_DOWN, ARROW_LEFT, ARROW_RIGHT} -> "arrow"
      [] c \in {CTRL_L, ESC} -> "nothing"
      [] OTHER -> "default"

KeyEnter ==
    /\ pc = "key"
    /\ LET ok == InsertNewLineInBounds(E)
       IN Handled(IF ok THEN editorInsertNewLine(E) ELSE E, ok)

\* the quit case with quit_times > 1 for quit_times > 0
KeyQuitOffByOne ==
    /\ pc = "key"
    /\ IF E.dirty # 0 /\ quit_times > 1
       THEN /\ E' = [E EXCEPT !.statusmsg = MsgWarn(quit_times)]
            /\ quit_times' = quit_times - 1
            /\ pc' = "refresh"
       ELSE /\ pc' = "exit"
            /\ UNCHANGED <<E, quit_times>>
    /\ quits' = quits + 1
    /\ UNCHANGED <<buf, edited, inp, out>>

\* the quit case asking for confirmation whether or not E.dirty is set
KeyQuitAlwaysWarns ==
    /\ pc = "key"
    /\ IF quit_times > 0
       THEN /\ E' = [E EXCEPT !.statusmsg = MsgWarn(quit_times)]
            /\ quit_times' = quit_times - 1
            /\ pc' = "refresh"
       ELSE /\ pc' = "exit"
            /\ UNCHANGED <<E, quit_times>>
    /\ quits' = quits + 1
    /\ UNCHANGED <<buf, edited, inp, out>>

KeyQuit ==
    /\ pc = "key"
    /\ IF E.dirty # 0 /\ quit_times > 0
       THEN /\ E' = [E EXCEPT !.statusmsg = MsgWarn(quit_times)]
            /\ quit_times' = quit_times - 1
            /\ pc' = "refresh"
       ELSE /\ pc' = "exit"
            /\ UNCHANGED <<E, quit_times>>
    /\ quits' = quits + 1
    /\ UNCHANGED <<buf, edited, inp, out>>

\* Ctrl-S with a filename: editorSave runs to its end
KeySave ==
    /\ pc = "key"
    /\ E.filename # NULL
    /\ \E outcome \in SaveOutcomes :
          Finish(editorSaveWrite(E, outcome), TRUE, outcome = "ok")

\* Ctrl-S without a filename: editorSave enters editorPrompt
KeySavePrompt ==
    /\ pc = "key"
    /\ E.filename = NULL
    /\ pc' = "prompt_refresh"
    /\ buf' = << >>
    /\ quits' = 0
    /\ UNCHANGED <<E, quit_times, edited, inp, out>>

KeyHome ==
    /\ pc = "key"
    /\ Handled([E EXCEPT !.cx = 0], TRUE)

KeyEnd ==
    /\ pc = "key"
    /\ Handled(EndKey(E), TRUE)

KeyDeleteOf(c) ==
    /\ pc = "key"
    /\ LET ok == DeleteKeyInBounds(E, c)
       IN Handled(IF ok THEN DeleteKey(E, c) ELSE E, ok)

KeyDelete == \E c \in {BACKSPACE, CTRL_H, DEL_KEY} : KeyDeleteOf(c)

KeyPageOf(c) ==
    /\ pc = "key"
    /\ Handled(PageMove(E, c), TRUE)

KeyPage == \E c \in {PAGE_UP, PAGE_DOWN} : KeyPageOf(c)

KeyArrowOf(c) ==
    /\ pc = "key"
    /\ LET ok == MoveCursorInBounds(E, c)
       IN Handled(IF ok THEN editorMoveCursor(E, c) ELSE E, ok)

KeyArrow == \E c \in {ARROW_UP, ARROW_DOWN, ARROW_LEFT, ARROW_RIGHT} : KeyArrowOf(c)

\* Ctrl-L and ESC
KeyNothing ==
    /\ pc = "key"
    /\ Handled(E, TRUE)

\* the default case: every other key is inserted
KeyDefaultOf(c) ==
    /\ pc = "key"
    /\ KeyCase(c) = "default"
    /\ LET ok == InsertCharInBounds(E)
       IN Handled(IF ok THEN editorInsertChar(E, c) ELSE E, ok)

KeyDefault == \E c \in Bytes : KeyDefaultOf(c)

\* ------------------------------------------------------------ the key decoder
\* the codes of the characters editorReadKey compares with
Ord(ch) ==
    CASE ch = "[" -> 91 [] ch = "O" -> 79 [] ch = "~" -> 126
      [] ch = "0" -> 48 [] ch = "1" -> 49 [] ch = "2" -> 50 [] ch = "3" -> 51
      [] ch = "4" -> 52 [] ch = "5" -> 53 [] ch = "6" -> 54 [] ch = "7" -> 55
      [] ch = "8" -> 56 [] ch = "9" -> 57
      [] ch = "A" -> 65 [] ch = "B" -> 66 [] ch = "C" -> 67 [] ch = "D" -> 68
      [] ch = "F" -> 70 [] ch = "H" -> 72

\* Standard input as the results of the reads to come: a byte (read returns
\* 1), or NoByte (the read returns 0 after the VTIME timeout); past the end
\* of the sequence every read times out.
NoByte == 0 - 1

\* read(STDIN_FILENO, &x, 1) == 1
Pending(s) == s # << >> /\ s[1] # NoByte
\* the input left after one read
AfterRead(s) == IF s = << >> THEN s ELSE Tail(s)

\* the while loop of editorReadKey: reads until one returns a byte
RECURSIVE WaitLoop(_)
WaitLoop(s) == IF s = << >> \/ Pending(s) THEN s ELSE WaitLoop(Tail(s))

\* char c as the int that is returned (char is signed in the build)
CharToInt(b) == IF b >= 128 THEN b - 256 ELSE b

\* switch(seq[1]) after ESC [ <digit> ~ with '4' taken for '1'
TildeKeyEndAsHome(seq1) ==
    CASE seq1 = Ord("1") -> HOME_KEY
      [] seq1 = Ord("3") -> DEL_KEY
      [] seq1 = Ord("4") -> HOME_KEY
      [] seq1 = Ord("5") -> PAGE_UP
      [] seq1 = Ord("6") -> PAGE_DOWN
      [] seq1 = Ord("7") -> HOME_KEY
      [] seq1 = Ord("8") -> END_KEY
      [] OTHER -> ESC

\* switch(seq[1]) after ESC [ <digit> ~
TildeKey(seq1) ==
    CASE seq1 = Ord("1") -> HOME_KEY
      [] seq1 = Ord("3") -> DEL_KEY
      [] seq1 = Ord("4") -> END_KEY
      [] seq1 = Ord("5") -> PAGE_UP
      [] seq1 = Ord("6") -> PAGE_DOWN
      [] seq1 = Ord("7") -> HOME_KEY
      [] seq1 = Ord("8") -> END_KEY
      [] OTHER -> ESC

\* switch(seq[1]) after ESC [
BracketKey(seq1) ==
    CASE seq1 = Ord("A") -> ARROW_UP
      [] seq1 = Ord("B") -> ARROW_DOWN
      [] seq1 = Ord("C") -> ARROW_RIGHT
      [] seq1 = Ord("D") -> ARROW_LEFT
      [] seq1 = Ord("H") -> HOME_KEY
      [] seq1 = Ord("F") -> END_KEY
      [] OTHER -> ESC

\* switch(seq[1]) after ESC O
OKey(seq1) ==
    CASE seq1 = Ord("H") -> HOME_KEY
      [] seq1 = Ord("F") -> END_KEY
      [] OTHER -> ESC

Key(k, rest) == [key |-> k, rest |-> rest]

\* editorReadKey on the input s, which holds a byte: the key returned and
\* the input left
editorReadKey(s) ==
    LET s0 == WaitLoop(s)
        c == s0[1]
        s1 == Tail(s0)
    IN IF c # ESC THEN Key(CharToInt(c), s1)
       ELSE IF ~Pending(s1) THEN Key(ESC, AfterRead(s1))
       ELSE LET seq0 == s1[1]
                s2 == Tail(s1)
            IN IF ~Pending(s2) THEN Key(ESC, AfterRead(s2))
               ELSE LET seq1 == s2[1]
                        s3 == Tail(s2)
                    IN IF seq0 = Ord("[")
                       THEN IF seq1 >= Ord("0") /\ seq1 <= Ord("9")
                            THEN IF ~Pending(s3) THEN Key(ESC, AfterRead(s3))
                                 ELSE Key(IF s3[1] = Ord("~") THEN TildeKey(seq1) ELSE ESC,
                                          Tail(s3))
                            ELSE Key(BracketKey(seq1), s3)
                       ELSE IF seq0 = Ord("O") THEN Key(OKey(seq1), s3)
                       ELSE Key(ESC, s3)

\* iscntrl in the C locale
iscntrl(c) == c \in 0..31 \/ c = 127

\* the branch of editorPrompt taken for key c, with ESC ignored
PromptCaseNoCancel(c) ==
    IF c = DEL_KEY \/ c = CTRL_H \/ c = BACKSPACE THEN "delete"
    ELSE IF c = CR THEN "enter"
    ELSE IF ~iscntrl(c) /\ c < 128 THEN "char"
    ELSE "ignored"

\* the branch of editorPrompt taken for key c
PromptCase(c) ==
    IF c = DEL_KEY \/ c = CTRL_H \/ c = BACKSPACE THEN "delete"
    ELSE IF c = ESC THEN "cancel"
    ELSE IF c = CR THEN "enter"
    ELSE IF ~iscntrl(c) /\ c < 128 THEN "char"
    ELSE "ignored"

\* ------------------------------------------------------------ the save prompt
\* editorSetStatusMessage(prompt, buf); editorRefreshScreen() in editorPrompt
PromptRefresh ==
    /\ pc = "prompt_refresh"
    /\ E' = editorRefreshScreen([E EXCEPT !.statusmsg = MsgPrompt(buf)])
    /\ pc' = "prompt_key"
    /\ UNCHANGED <<quit_times, buf, quits, edited, inp, out>>

\* a key after which editorPrompt keeps prompting
PromptKeyStay(b) ==
    /\ buf' = b
    /\ pc' = "prompt_refresh"
    /\ UNCHANGED <<E, quit_times, quits, edited, inp, out>>

\* DEL_KEY, Ctrl-H or BACKSPACE
PromptDelete ==
    /\ pc = "prompt_key"
    /\ \E c \in {DEL_KEY, CTRL_H, BACKSPACE} : PromptCase(c) = "delete"
    /\ PromptKeyStay(IF Len(buf) # 0 THEN SubSeq(buf, 1, Len(buf) - 1) ELSE buf)

\* ESC taken as Enter is: what was typed becomes the filename
PromptEscapeKeepsName ==
    /\ pc = "prompt_key"
    /\ Handled([E EXCEPT !.statusmsg = MsgAborted, !.filename = buf], TRUE)

\* ESC: editorPrompt returns NULL and editorSave gives up
PromptEscape ==
    /\ pc = "prompt_key"
    /\ PromptCase(ESC) = "cancel"
    /\ Handled([E EXCEPT !.statusmsg = MsgAborted, !.filename = NULL], TRUE)

\* Enter on an empty buffer returning the empty buffer as the filename
PromptEnterEmptyReturns ==
    /\ pc = "prompt_key"
    /\ PromptCase(CR) = "enter"
    /\ Len(buf) = 0
    /\ \E outcome \in SaveOutcomes :
          Finish(editorSaveWrite([E EXCEPT !.filename = buf], outcome), TRUE,
             outcome = "ok")

\* Enter on an empty buffer
PromptEnterEmpty ==
    /\ pc = "prompt_key"
    /\ PromptCase(CR) = "enter"
    /\ Len(buf) = 0
    /\ PromptKeyStay(buf)

\* Enter: editorPrompt returns buf, which becomes E.filename, and editorSave goes on
PromptEnter ==
    /\ pc = "prompt_key"
    /\ PromptCase(CR) = "enter"
    /\ Len(buf) # 0
    /\ \E outcome \in SaveOutcomes :
          Finish(editorSaveWrite([E EXCEPT !.filename = buf], outcome), TRUE,
             outcome = "ok")

\* !iscntrl(c) && c < 128
PromptChar ==
    /\ pc = "prompt_key"
    /\ PromptCase(97) = "char"
    /\ Len(buf) < MaxName
    /\ PromptKeyStay(Append(buf, 97))

\* any other key (a control byte, an arrow, Home, End, PageUp, PageDown) is ignored
PromptIgnored ==
    /\ pc = "prompt_key"
    /\ \E c \in {TAB, CTRL_L, ARROW_UP, HOME_KEY, PAGE_DOWN} : PromptCase(c) = "ignored"
    /\ PromptKeyStay(buf)

\* ------------------------------------------------------------ specifications
InitWith(sizes) ==
    /\ \E ws \in sizes : E = initEditor(ws)
    /\ quit_times = ATTO_QUIT_TIMES
    /\ pc = "start"
    /\ buf = << >>
    /\ quits = 0
    /\ edited = FALSE
    /\ inp \in {NoInput} \cup {Input(TRUE, << >>, f, 0, 0) : f \in ArgFiles}
    /\ out = << >>

Init == InitWith(WinSizes)

Next ==
    \/ Start
    \/ Refresh
    \/ KeyEnter
    \/ KeyQuit
    \/ KeySave
    \/ KeySavePrompt
    \/ KeyHome
    \/ KeyEnd
    \/ KeyDelete
    \/ KeyPage
    \/ KeyArrow
    \/ KeyNothing
    \/ KeyDefault
    \/ PromptRefresh
    \/ PromptDelete
    \/ PromptEscape
    \/ PromptEnterEmpty
    \/ PromptEnter
    \/ PromptChar
    \/ PromptIgnored

Spec == Init /\ [][Next]_vars

\* ------------------------------------------------------------ waiting for a key
\* the first read of editorReadKey returns no byte: 0 after the VTIME timeout,
\* or -1 with EAGAIN
ReadTimeout ==
    /\ pc \in {"key", "prompt_key"}
    /\ pc' = (IF pc = "key" THEN "timeout" ELSE "prompt_timeout")
    /\ UNCHANGED <<E, quit_times, buf, quits, edited, inp, out>>

\* nread != 1 and no error: the while loop of editorReadKey reads again
ReadRetry ==
    /\ pc \in {"timeout", "prompt_timeout"}
    /\ pc' = (IF pc = "timeout" THEN "key" ELSE "prompt_key")
    /\ UNCHANGED <<E, quit_times, buf, quits, edited, inp, out>>

\* the read fails with another error: die("read")
ReadError ==
    /\ pc \in {"key", "prompt_key"}
    /\ pc' = "died"
    /\ UNCHANGED <<E, quit_times, buf, quits, edited, inp, out>>

NextIdle == Next \/ ReadTimeout \/ ReadRetry \/ ReadError

\* The terminal is in VMIN = 0, VTIME = 1 mode, so a read with no input
\* pending returns within a tenth of a second, and the process keeps running.
\* No key has to arrive.
SpecIdle == Init /\ [][NextIdle]_vars /\ WF_vars(ReadTimeout) /\ WF_vars(ReadRetry)

\* ------------------------------------------------------------ harnesses
\* text files of at most MaxRows lines: each line ends with '\n', the last
\* non-empty line perhaps without it
RECURSIVE FileOf(_)
FileOf(lines) ==
    IF lines = << >> THEN << >>
    ELSE (lines[1] \o <<NL>>) \o FileOf(Tail(lines))

LineSeqs == SeqsUpTo(Lines, MaxRows)

FilesOf(lines) ==
    {FileOf(lines)} \cup
    (IF lines # << >> /\ lines[Len(lines)] # << >>
     THEN {SubSeq(FileOf(lines), 1, Len(FileOf(lines)) - 1)}
     ELSE {})

\* editorOpen on a file whose lines are inp.lines, then editorRowsToString
InitOpen ==
    /\ \E ws \in WinSizes : E = initEditor(ws)
    /\ quit_times = ATTO_QUIT_TIMES
    /\ pc = "open"
    /\ buf = << >>
    /\ quits = 0
    /\ edited = FALSE
    /\ \E lines \in LineSeqs : \E f \in FilesOf(lines) :
          inp = Input(TRUE, lines, f, 0, 0)
    /\ out = << >>

CallOpen ==
    /\ pc = "open"
    /\ E' = editorOpen(E, ArgName, inp.file)
    /\ pc' = "opened"
    /\ UNCHANGED <<quit_times, buf, quits, edited, inp, out>>

CallRowsToString ==
    /\ pc = "opened"
    /\ out' = editorRowsToString(E)
    /\ pc' = "serialized"
    /\ UNCHANGED <<E, quit_times, buf, quits, edited, inp>>

SpecOpen == InitOpen /\ [][CallOpen \/ CallRowsToString]_vars

\* editorRowInsertChar(row, col, c) then editorRowDelChar(row, col) on the one
\* row inp.lines[1] of a document, for columns inside and outside the row
InitRow ==
    /\ quit_times = ATTO_QUIT_TIMES
    /\ pc = "row"
    /\ buf = << >>
    /\ quits = 0
    /\ edited = FALSE
    /\ out = << >>
    /\ \E ws \in WinSizes, chars \in Lines, col \in (0 - 1)..(MaxLen + 2), c \in Bytes :
          /\ E = editorInsertRow(initEditor(ws), 0, chars)
          /\ inp = Input(FALSE, <<chars>>, << >>, col, c)

CallRowInsertChar ==
    /\ pc = "row"
    /\ E' = editorRowInsertChar(E, 0, inp.col, inp.c)
    /\ pc' = "row_inserted"
    /\ UNCHANGED <<quit_times, buf, quits, edited, inp, out>>

CallRowDelChar ==
    /\ pc = "row_inserted"
    /\ E' = editorRowDelChar(E, 0, inp.col)
    /\ pc' = "row_deleted"
    /\ UNCHANGED <<quit_times, buf, quits, edited, inp, out>>

SpecRow == InitRow /\ [][CallRowInsertChar \/ CallRowDelChar]_vars

\* editorReadKey on standard input inp.file, then the key handed to the
\* loop of editorPrompt
KeyFirst == {ESC, 97, 233}
KeyBytes ==
    {NoByte, ESC, 97, Ord("["), Ord("O"), Ord("~"),
     Ord("1"), Ord("2"), Ord("3"), Ord("4"), Ord("5"), Ord("6"), Ord("7"), Ord("8"),
     Ord("A"), Ord("B"), Ord("C"), Ord("D"), Ord("F"), Ord("H")}
Stdins ==
    {<<NoByte, 97>>}
       \cup {<<f>> \o r : f \in KeyFirst \ {ESC}, r \in SeqsUpTo(KeyBytes, 1)}
       \cup {<<ESC>> \o r : r \in SeqsUpTo(KeyBytes, MaxPending)}

InitReadKey ==
    /\ E = initEditor(<<24, 80>>)
    /\ quit_times = ATTO_QUIT_TIMES
    /\ pc = "read"
    /\ buf = << >>
    /\ quits = 0
    /\ edited = FALSE
    /\ \E s \in Stdins : inp = Input(FALSE, << >>, s, 0, 0)
    /\ out = << >>

CallReadKey ==
    /\ pc = "read"
    /\ out' = editorReadKey(inp.file)
    /\ pc' = "decoded"
    /\ UNCHANGED <<E, quit_times, buf, quits, edited, inp>>

CallPromptKey ==
    /\ pc = "decoded"
    /\ out' = [key |-> out.key, rest |-> out.rest, prompt |-> PromptCase(out.key)]
    /\ pc' = "prompted"
    /\ UNCHANGED <<E, quit_times, buf, quits, edited, inp>>

SpecReadKey == InitReadKey /\ [][CallReadKey \/ CallPromptKey]_vars

\* the document operations called on their own on a document of the rows
\* inp.lines, with the index inp.col inside and outside the document or its
\* first row, and editorRowsToString called on that document
RECURSIVE DocOf(_, _)
DocOf(e, lines) ==
    IF lines = << >> THEN e
    ELSE DocOf(editorInsertRow(e, e.numrows, lines[1]), Tail(lines))

InitDoc ==
    /\ quit_times = ATTO_QUIT_TIMES
    /\ pc = "doc"
    /\ buf = << >>
    /\ quits = 0
    /\ edited = FALSE
    /\ out = << >>
    /\ \E lines \in LineSeqs, at \in (0 - 1)..(MaxLen + 2), c \in Bytes :
          /\ E = DocOf(initEditor(<<24, 80>>), lines)
          /\ inp = Input(FALSE, lines, << >>, at, c)

CallInsertRow ==
    /\ pc = "doc"
    /\ E' = editorInsertRow(E, inp.col, <<inp.c>>)
    /\ pc' = "doc_row_inserted"
    /\ UNCHANGED <<quit_times, buf, quits, edited, inp, out>>

CallDelRow ==
    /\ pc = "doc"
    /\ E' = editorDelRow(E, inp.col)
    /\ pc' = "doc_row_deleted"
    /\ UNCHANGED <<quit_times, buf, quits, edited, inp, out>>

CallRowInsertCharAt ==
    /\ pc = "doc"
    /\ E.numrows > 0
    /\ E' = editorRowInsertChar(E, 0, inp.col, inp.c)
    /\ pc' = "doc_char_inserted"
    /\ UNCHANGED <<quit_times, buf, quits, edited, inp, out>>

CallRowDelCharAt ==
    /\ pc = "doc"
    /\ E.numrows > 0
    /\ E' = editorRowDelChar(E, 0, inp.col)
    /\ pc' = "doc_char_deleted"
    /\ UNCHANGED <<quit_times, buf, quits, edited, inp, out>>

CallSerialize ==
    /\ pc = "doc"
    /\ out' = [buf |-> editorRowsToString(E), buflen |-> editorRowsToStringLen(E)]
    /\ pc' = "doc_serialized"
    /\ UNCHANGED <<E, quit_times, buf, quits, edited, inp>>

NextDoc ==
    \/ CallInsertRow
    \/ CallDelRow
    \/ CallRowInsertCharAt
    \/ CallRowDelCharAt
    \/ CallSerialize

SpecDoc == InitDoc /\ [][NextDoc]_vars

\* the same program on the terminals of WinSizes, on one of 24 rows and 80
\* columns and on one a column wider than the welcome text
FrameWinSizes == WinSizes \cup {<<24, 80>>, <<5, 27>>}
SpecFrame == InitWith(FrameWinSizes) /\ [][Next]_vars

\* the same program started on any terminal, one too short for a text row included
SpecAnyWindow == InitWith(AnyWinSizes) /\ [][Next]_vars

\* ------------------------------------------------------------ claims
Running == pc \in {"refresh", "key", "prompt_refresh", "prompt_key", "exit"}

RowLen(e) == IF e.cy >= 0 /\ e.cy < e.numrows THEN size(e.row[e.cy + 1]) ELSE 0

\* C1: in every state reached from startup by key events the cursor is in the
\* document: 0 <= cy <= numrows and 0 <= cx <= size of row cy, with cx = 0
\* when cy = numrows.
CursorInvariant ==
    Running =>
        /\ 0 <= E.cy /\ E.cy <= E.numrows
        /\ 0 <= E.cx /\ E.cx <= RowLen(E)

\* C2: loading a file whose lines are L and serializing the document gives
\* the lines of L in order, each followed by '\n', and as many rows as lines.
RoundTrip ==
    pc = "serialized" =>
        /\ out = FileOf(inp.lines)
        /\ E.numrows = Len(inp.lines)

\* C8 as stated: for any row, any column col and any byte b,
\* editorRowInsertChar(row, col, b) then editorRowDelChar(row, col) leaves
\* the row's chars as they were.
InsertDeleteInverseAnyColumn ==
    pc = "row_deleted" => E.row[1].chars = inp.lines[1]

\* C8 amended: the same for every column col with 0 <= col <= size.
InsertDeleteInverse ==
    (pc = "row_deleted" /\ 0 <= inp.col /\ inp.col <= Len(inp.lines[1])) =>
        E.row[1].chars = inp.lines[1]

\* a byte was inserted inside a row of two bytes and deleted again (the row
\* was inserted, then changed twice)
InsertDeleteInverseWitness ==
    /\ pc = "row_deleted"
    /\ inp.col = 1
    /\ Len(inp.lines[1]) = 2
    /\ inp.c # inp.lines[1][2]
    /\ E.dirty = 3

\* C9: with no input pending the decoder gives control back, so that the
\* loop reaches another editorRefreshScreen though no key arrives.
DecoderReturnsWhenIdle ==
    (pc \in {"timeout", "prompt_timeout"}) ~>
        (pc \notin {"key", "timeout", "prompt_key", "prompt_timeout"})

\* ------------------------------------------------------------ claims on the editor
IsWarning(m) == m.kind = MsgWarn(0).kind
IsWritten(m) == m.kind = MsgWritten(0).kind
IsIOError(m) == m.kind = MsgIOError.kind

\* C3: with dirty # 0 and the countdown at its initial value, the 1st and the
\* 2nd quit command in a row do not exit: each only sets a warning message
\* and leaves document and cursor as they are; the 3rd in a row exits.
QuitConfirmation ==
    [][KeyQuit =>
          /\ (E.dirty # 0 /\ quits < ATTO_QUIT_TIMES) =>
                /\ pc' = "refresh"
                /\ IsWarning(E'.statusmsg)
                /\ E' = [E EXCEPT !.statusmsg = E'.statusmsg]
          /\ (E.dirty # 0 /\ quits = ATTO_QUIT_TIMES) => pc' = "exit"]_vars

\* the process has left through the quit command with unsaved changes, on the
\* third quit command in a row
QuitConfirmationWitness ==
    pc = "exit" /\ E.dirty # 0 /\ quits = ATTO_QUIT_TIMES + 1

\* C4: a key event other than the quit command sets the countdown back to
\* ATTO_QUIT_TIMES: whenever the main loop is between key events and the last
\* one was not a quit command, the full countdown is ahead.
QuitCountdownReset ==
    (pc \in {"refresh", "key"} /\ quits = 0) => quit_times = ATTO_QUIT_TIMES

\* a confirmation was in progress (its warning is still the status message)
\* and another key has set the countdown back
QuitCountdownResetWitness ==
    /\ pc = "refresh"
    /\ IsWarning(E.statusmsg)
    /\ E.dirty # 0
    /\ quits = 0
    /\ quit_times = ATTO_QUIT_TIMES

SaveStep == KeySave \/ PromptEnter

\* C5: a save that fails leaves the rows, the filename (absent if it was
\* absent before the save command) and dirty as they were.
FailedSaveKeepsState ==
    [][(SaveStep /\ IsIOError(E'.statusmsg)) =>
          /\ E'.row = E.row
          /\ E'.filename = E.filename
          /\ E'.dirty = E.dirty]_vars

\* C6: dirty = 0 exactly when no row was inserted, deleted or changed since
\* the last load or successful save; a key event that changes the rows
\* increases dirty, a successful save sets it to 0, nothing else changes it.
DirtyTracking ==
    /\ [](Running => (E.dirty = 0 <=> ~edited))
    /\ [][pc # "start" =>
             IF SaveStep /\ IsWritten(E'.statusmsg) THEN E'.dirty = 0
             ELSE IF E'.row # E.row THEN E'.dirty > E.dirty
             ELSE E'.dirty = E.dirty]_vars

\* an edited document has been saved: rows to write, dirty back to 0
DirtyTrackingWitness ==
    /\ pc = "refresh"
    /\ IsWritten(E.statusmsg)
    /\ E.statusmsg.arg # <<0>>
    /\ E.dirty = 0
    /\ ~edited

\* the tab expansion of a row: every byte but a tab as it is, a tab as one to
\* four spaces up to the next column that is a multiple of four
RECURSIVE TabExpand(_)
TabExpand(chars) ==
    IF chars = << >> THEN << >>
    ELSE LET front == TabExpand(SubSeq(chars, 1, Len(chars) - 1))
             last == chars[Len(chars)]
         IN IF last = TAB
            THEN front \o [i \in 1..(4 - (Len(front) % 4)) |-> SPACE]
            ELSE Append(front, last)

\* C7: in every state the render of every row is the tab expansion of its
\* chars.
RenderSync ==
    Running => \A i \in 1..E.numrows : E.row[i].render = TabExpand(E.row[i].chars)

\* two rows, the first with a tab in it, the cursor at the start of the second
RenderSyncWitness ==
    /\ pc = "refresh"
    /\ E.numrows = 2
    /\ E.cy = 1 /\ E.cx = 0
    /\ size(E.row[1]) = 2 /\ E.row[1].chars[2] = TAB
    /\ rsize(E.row[1]) = 4
    /\ size(E.row[2]) = 0

\* C10 as stated: Backspace (or Ctrl-H) changes nothing exactly when the
\* cursor is at (0, 0) or past the end of a document with no rows.
BackspaceNoOpOnlyAtStart ==
    pc = "key" =>
        \A c \in {BACKSPACE, CTRL_H} :
            (DeleteKey(E, c) = E) <=>
                ((E.cy = 0 /\ E.cx = 0) \/ (E.cy = E.numrows /\ E.numrows = 0))

\* C10 amended: Backspace (or Ctrl-H) changes nothing exactly when the cursor
\* is at (0, 0) or past the end of the file (cy = numrows), rows or no rows.
BackspaceNoOp ==
    pc = "key" =>
        \A c \in {BACKSPACE, CTRL_H} :
            (DeleteKey(E, c) = E) <=>
                ((E.cy = 0 /\ E.cx = 0) \/ E.cy = E.numrows)

\* the cursor is past the last row of a document with rows, where Backspace
\* changes nothing
BackspaceNoOpWitness ==
    /\ pc = "key"
    /\ E.numrows > 0
    /\ E.cy = E.numrows
    /\ DeleteKey(E, BACKSPACE) = E

\* the raw contents of the rows of the document, in order
Texts(e) == [i \in 1..e.numrows |-> e.row[i].chars]

\* s without its element at 0-based index at
Without(s, at) == [i \in 1..(Len(s) - 1) |-> IF i <= at THEN s[i] ELSE s[i + 1]]

InPrompt(p) == p \in {"prompt_refresh", "prompt_key"}

\* C12: when no filename is set and the save prompt is cancelled with ESC, no
\* write is made, the filename stays absent, rows, dirty and cursor are as
\* they were before the save command (no step from the save command to the
\* cancel changes them), the status message tells that the save was aborted
\* and control is back in the main loop on that key event.
SaveCancel ==
    [][/\ ((KeySavePrompt \/ InPrompt(pc)) /\ InPrompt(pc')) =>
             /\ E.filename = NULL /\ E'.filename = NULL
             /\ E'.row = E.row /\ E'.numrows = E.numrows /\ E'.dirty = E.dirty
             /\ E'.cx = E.cx /\ E'.cy = E.cy
             /\ out' = out
       /\ PromptEscape =>
             /\ E.filename = NULL /\ E'.filename = NULL
             /\ E'.row = E.row /\ E'.numrows = E.numrows /\ E'.dirty = E.dirty
             /\ E'.cx = E.cx /\ E'.cy = E.cy
             /\ out' = out
             /\ E'.statusmsg = MsgAborted
             /\ pc' = "refresh"]_vars

\* a save of an edited document without a name was cancelled: the message
\* is up, there is no filename and the document is still unsaved
SaveCancelWitness ==
    /\ pc = "refresh"
    /\ E.statusmsg = MsgAborted
    /\ E.filename = NULL
    /\ E.dirty > 0 /\ E.numrows > 0

\* C13: two successful saves in a row with no edit between them hand the
\* same bytes (content and length) to write, and dirty is 0 after each.
SaveIdempotent ==
    [][(SaveStep /\ IsWritten(E'.statusmsg)) =>
          /\ E'.dirty = 0
          /\ out' = <<editorRowsToString(E)>>
          /\ E'.statusmsg.arg = <<Len(editorRowsToString(E))>>
          /\ out # << >> => out' = out]_vars

\* a document with two rows was saved, the cursor has moved to another row
\* since, and no row has changed: the next save is the second in a row
SaveIdempotentWitness ==
    /\ pc = "key"
    /\ out # << >>
    /\ E.numrows = 2 /\ E.cy = 0
    /\ E.filename # NULL
    /\ ~IsWritten(E.statusmsg)

\* the bytes of the key that is read: those up to the first read that times
\* out, after the timeouts before the first byte
RECURSIVE UpToTimeout(_)
UpToTimeout(s) ==
    IF s = << >> \/ s[1] = NoByte THEN << >> ELSE <<s[1]>> \o UpToTimeout(Tail(s))

KeySeq == UpToTimeout(IF inp.file[1] = NoByte THEN Tail(inp.file) ELSE inp.file)

\* the escape sequences and their keys
EscTable ==
    (<<ESC, Ord("["), Ord("1"), Ord("~")>> :> HOME_KEY) @@
    (<<ESC, Ord("["), Ord("7"), Ord("~")>> :> HOME_KEY) @@
    (<<ESC, Ord("["), Ord("3"), Ord("~")>> :> DEL_KEY) @@
    (<<ESC, Ord("["), Ord("4"), Ord("~")>> :> END_KEY) @@
    (<<ESC, Ord("["), Ord("8"), Ord("~")>> :> END_KEY) @@
    (<<ESC, Ord("["), Ord("5"), Ord("~")>> :> PAGE_UP) @@
    (<<ESC, Ord("["), Ord("6"), Ord("~")>> :> PAGE_DOWN) @@
    (<<ESC, Ord("["), Ord("A")>> :> ARROW_UP) @@
    (<<ESC, Ord("["), Ord("B")>> :> ARROW_DOWN) @@
    (<<ESC, Ord("["), Ord("C")>> :> ARROW_RIGHT) @@
    (<<ESC, Ord("["), Ord("D")>> :> ARROW_LEFT) @@
    (<<ESC, Ord("["), Ord("H")>> :> HOME_KEY) @@
    (<<ESC, Ord("["), Ord("F")>> :> END_KEY) @@
    (<<ESC, Ord("O"), Ord("H")>> :> HOME_KEY) @@
    (<<ESC, Ord("O"), Ord("F")>> :> END_KEY)

Decoded == pc \in {"decoded", "prompted"}

\* C14: the decoder gives Home for ESC [ 1 ~ and ESC [ 7 ~, Delete for
\* ESC [ 3 ~, End for ESC [ 4 ~ and ESC [ 8 ~, PageUp for ESC [ 5 ~, PageDown
\* for ESC [ 6 ~, Up/Down/Right/Left for ESC [ A/B/C/D, Home/End for
\* ESC [ H/F and ESC O H/F, plain escape for every other sequence that
\* starts with ESC, and the byte itself (the char that was read) for every
\* other first byte.
DecoderMapping ==
    Decoded =>
        LET p == KeySeq
            known == {n \in 3..4 : n <= Len(p) /\ SubSeq(p, 1, n) \in DOMAIN EscTable}
        IN IF p[1] # ESC THEN out.key % 256 = p[1]
           ELSE IF known # {} THEN \A n \in known : out.key = EscTable[SubSeq(p, 1, n)]
           ELSE out.key = ESC

\* ESC [ 8 ~ was read as End and the input is used up
DecoderMappingWitness ==
    /\ pc = "decoded"
    /\ inp.file = <<ESC, Ord("["), Ord("8"), Ord("~")>>
    /\ out.key = END_KEY
    /\ out.rest = << >>

\* C19: when ESC is followed by fewer than two bytes before a read times
\* out, or ESC [ <digit> by no third byte, the decoder gives plain escape
\* for that key event and reads no more (the read that timed out is its
\* last); in the prompt this plain escape cancels the prompt.
EscapeTimeout ==
    Decoded =>
        LET p == KeySeq
            digit == Len(p) = 3 /\ p[2] = Ord("[") /\ p[3] \in Ord("0")..Ord("9")
        IN (p[1] = ESC /\ (Len(p) < 3 \/ digit)) =>
              /\ out.key = ESC
              /\ out.rest = SubSeq(inp.file, Len(p) + 2, Len(inp.file))
              /\ pc = "prompted" => out.prompt = "cancel"

\* ESC [ and then a read that times out: plain escape, which cancelled the
\* prompt, and the byte that came later is still in the input
EscapeTimeoutWitness ==
    /\ pc = "prompted"
    /\ inp.file = <<ESC, Ord("["), NoByte, Ord("A")>>
    /\ out.key = ESC
    /\ out.rest = <<Ord("A")>>
    /\ out.prompt = "cancel"

\* the screen has just been drawn: editorRefreshScreen has returned and the
\* process reads the next key
Rendered == pc \in {"key", "prompt_key"}

\* C15: at every render with screenrows >= 1 and screencols >= 1, after
\* scrolling, 0 <= rowoff <= cy < rowoff + screenrows and
\* 0 <= coloff <= rx < coloff + screencols, so the cursor position sent to
\* the terminal, (cy - rowoff + 1, rx - coloff + 1), is in
\* [1, screenrows] x [1, screencols], after any sequence of key events.
ViewportInvariant ==
    (Rendered /\ E.screenrows >= 1 /\ E.screencols >= 1) =>
        /\ 0 <= E.rowoff /\ E.rowoff <= E.cy /\ E.cy < E.rowoff + E.screenrows
        /\ 0 <= E.coloff /\ E.coloff <= E.rx /\ E.rx < E.coloff + E.screencols
        /\ (E.cy - E.rowoff) + 1 \in 1..E.screenrows
        /\ (E.rx - E.coloff) + 1 \in 1..E.screencols

\* the window has scrolled down and to the right to follow the cursor
ViewportInvariantWitness ==
    /\ pc = "key"
    /\ E.rowoff > 0 /\ E.coloff > 0
    /\ E.cy = E.rowoff + E.screenrows - 1
    /\ E.rx = E.coloff + E.screencols - 1

\* the number of tabs of a row text
Tabs(chars) == Cardinality({i \in 1..Len(chars) : chars[i] = TAB})

RawToRenderColumn ==
    /\ \A i \in 1..E.numrows :
          LET row == E.row[i]
          IN /\ \A cx \in 0..size(row) :
                   editorRowCxToRx(row, cx) = Len(TabExpand(SubSeq(row.chars, 1, cx)))
             /\ editorRowCxToRx(row, size(row)) = rsize(row)
    /\ editorRowCxToRx([chars |-> <<100, TAB, 101, 102>>, render |-> << >>], 2) = 4
    /\ Rendered =>
          E.rx = IF E.cy = E.numrows THEN 0
                 ELSE Len(TabExpand(SubSeq(E.row[E.cy + 1].chars, 1, E.cx)))

\* the screen was drawn with the cursor just after a tab that follows a
\* byte: raw column 2, render column 4
RawToRenderColumnWitness ==
    /\ pc = "key"
    /\ E.cy < E.numrows
    /\ E.row[E.cy + 1].chars = <<97, TAB>>
    /\ E.cx = 2
    /\ E.rx = 4

\* the welcome line put in the middle of cols columns: a '~' and spaces, the
\* welcome text, and as many columns left free on the right, or one more
Centered(line, cols) ==
    \E k \in 0..cols :
        /\ line = (IF k = 0 THEN << >> ELSE Tilde \o Spaces(k - 1)) \o Welcome
        /\ (cols - k - Len(Welcome)) - k \in {0, 1}

StartsWith(s, prefix) == Len(s) >= Len(prefix) /\ SubSeq(s, 1, Len(prefix)) = prefix

EmptyFrame(e) ==
    LET rows == editorDrawRows(e)
        at == e.screenrows \div 3
    IN /\ Len(rows) >= 1
       /\ \A y \in 0..(Len(rows) - 1) :
             IF y = at THEN Centered(rows[y + 1], e.screencols) ELSE rows[y + 1] = Tilde
       /\ StartsWith(editorDrawStatusBar(e), NoName \o StatusDash \o <<48>> \o StatusLines)

\* C18 as stated: for an empty document the frame drawn has the welcome text
\* on exactly one text row, the row at index screenrows / 3 (row 8 of a
\* 24 x 80 screen), centered in screencols; every other text row is '~';
\* and the status line starts with "[No Name] - 0 lines".
EmptyDocumentFrameAnyScreen ==
    (Rendered /\ E.numrows = 0) => EmptyFrame(E)

\* C18 amended: the same for an empty document without a filename on a
\* screen with a text row (screenrows >= 1) and room for the welcome text
\* (screencols >= 26).
EmptyDocumentFrame ==
    /\ (Rendered /\ E.numrows = 0 /\ E.filename = NULL
           /\ E.screenrows >= 1 /\ E.screencols >= Len(Welcome)) => EmptyFrame(E)
    /\ LET e == initEditor(<<24, 80>>)
       IN /\ e.screenrows \div 3 = 7
          /\ editorDrawRows(e)[8] = (Tilde \o Spaces(26)) \o Welcome

\* the empty document without a name drawn on the screen of 24 x 80: the
\* welcome text is on the eighth row, after '~' and 26 spaces
EmptyDocumentFrameWitness ==
    /\ pc = "key"
    /\ E.numrows = 0 /\ E.filename = NULL
    /\ E.screenrows = 22 /\ E.screencols = 80
    /\ Len(editorDrawRows(E)[8]) = 27 + Len(Welcome)
    /\ editorDrawRows(E)[7] = Tilde
    /\ Len(editorDrawStatusBar(E)) = 80

\* C20: in any reachable state Enter increases numrows by exactly 1; with
\* cx = 0 an empty row is inserted at index cy and the old row cy, if any,
\* moves to cy + 1 as it is; otherwise row cy becomes chars[0..cx) and a new
\* row cy + 1 holds chars[cx..size); all other rows keep content and order;
\* afterwards the cursor is (cy + 1, 0).
EnterEffect ==
    pc = "key" =>
        /\ InsertNewLineInBounds(E)
        /\ LET e2 == editorInsertNewLine(E)
               t == Texts(E)
           IN /\ e2.numrows = E.numrows + 1
              /\ Len(e2.row) = e2.numrows
              /\ E.cx = 0 =>
                    Texts(e2) = [i \in 1..(E.numrows + 1) |->
                                    IF i <= E.cy THEN t[i]
                                    ELSE IF i = E.cy + 1 THEN << >>
                                    ELSE t[i - 1]]
              /\ E.cx # 0 =>
                    Texts(e2) = [i \in 1..(E.numrows + 1) |->
                                    IF i <= E.cy THEN t[i]
                                    ELSE IF i = E.cy + 1 THEN SubSeq(t[E.cy + 1], 1, E.cx)
                                    ELSE IF i = E.cy + 2
                                         THEN SubSeq(t[E.cy + 1], E.cx + 1, Len(t[E.cy + 1]))
                                    ELSE t[i - 1]]
              /\ e2.cy = E.cy + 1 /\ e2.cx = 0

\* the bytes typed that are printable
Printable == {c \in Bytes : ~iscntrl(c) /\ c < 128}

Snap(e, cy, cx) ==
    LET len == IF cy < e.numrows THEN Len(e.row[cy + 1].chars) ELSE 0
    IN [e EXCEPT !.cy = cy, !.cx = IF cx > len THEN len ELSE cx]

\* C22: Left decrements cx, or at cx = 0 with cy > 0 goes to the end of row
\* cy - 1, or does nothing at (0, 0); Right increments cx when cx < row
\* length, goes to (cy + 1, 0) at the end of an existing row and does
\* nothing past the end of the file; Up and Down change cy by one within
\* [0, numrows]; after each move cx is at most the length of the new row
\* (0 past the end of the file).
MoveCursor ==
    pc = "key" =>
        LET len == RowLen(E)
        IN /\ editorMoveCursor(E, ARROW_LEFT) =
                 (IF E.cx > 0 THEN Snap(E, E.cy, E.cx - 1)
                  ELSE IF E.cy > 0 THEN Snap(E, E.cy - 1, Len(E.row[E.cy].chars))
                  ELSE E)
           /\ editorMoveCursor(E, ARROW_RIGHT) =
                 (IF E.cy < E.numrows /\ E.cx < len THEN Snap(E, E.cy, E.cx + 1)
                  ELSE IF E.cy < E.numrows THEN Snap(E, E.cy + 1, 0)
                  ELSE E)
           /\ editorMoveCursor(E, ARROW_UP) = Snap(E, IF E.cy > 0 THEN E.cy - 1 ELSE 0, E.cx)
           /\ editorMoveCursor(E, ARROW_DOWN) =
                 Snap(E, IF E.cy < E.numrows THEN E.cy + 1 ELSE E.numrows, E.cx)

\* Up is about to take the cursor from the end of a row to a shorter row
MoveCursorWitness ==
    /\ pc = "key"
    /\ E.cy = 1 /\ E.numrows = 2
    /\ E.cx = 2 /\ size(E.row[1]) = 0
    /\ editorMoveCursor(E, ARROW_UP).cx = 0

\* the rows and the counters of the document are as they were
SameDocument == E'.row = E.row /\ E'.numrows = E.numrows /\ E'.dirty = E.dirty

\* C23: editorInsertRow with at outside [0, numrows], editorDelRow with at
\* outside [0, numrows) and editorRowDelChar with at outside [0, size) leave
\* rows and dirty as they are and report no error; editorRowInsertChar with
\* at outside [0, size] puts the byte at the end of the row.
OutOfRangeOperations ==
    [][/\ (CallInsertRow /\ (inp.col < 0 \/ inp.col > E.numrows)) => SameDocument
       /\ (CallDelRow /\ (inp.col < 0 \/ inp.col >= E.numrows)) => SameDocument
       /\ (CallRowDelCharAt /\ (inp.col < 0 \/ inp.col >= Len(E.row[1].chars))) =>
             SameDocument
       /\ (CallRowInsertCharAt /\ (inp.col < 0 \/ inp.col > Len(E.row[1].chars))) =>
             /\ Texts(E') = [Texts(E) EXCEPT ![1] = Append(@, inp.c)]
             /\ E'.numrows = E.numrows
       /\ pc' \notin {"ub", "died"}]_vars

\* editorDelRow was called with at = numrows on a document of two rows,
\* which are both still there
OutOfRangeOperationsWitness ==
    /\ pc = "doc_row_deleted"
    /\ inp.col = 2
    /\ E.numrows = 2 /\ Len(E.row) = 2
    /\ E.dirty = 2

\* each text followed by '\n', in order
RECURSIVE JoinLines(_)
JoinLines(t) ==
    IF t = << >> THEN << >>
    ELSE (JoinLines(SubSeq(t, 1, Len(t) - 1)) \o t[Len(t)]) \o <<NL>>

RECURSIVE SumLen(_)
SumLen(t) == IF t = << >> THEN 0 ELSE Len(t[1]) + SumLen(Tail(t))

\* C24: editorRowsToString returns each row's raw bytes followed by one
\* '\n', in row order, and reports as length the sum of the row sizes plus
\* numrows (0 bytes for an empty document, a '\n' after the last row
\* otherwise); it changes nothing in the document, the cursor or dirty.
Serialization ==
    [][CallSerialize =>
          /\ out'.buf = JoinLines(Texts(E))
          /\ out'.buflen = SumLen(Texts(E)) + E.numrows
          /\ out'.buflen = Len(out'.buf)
          /\ E.numrows = 0 => out'.buflen = 0
          /\ E.numrows > 0 => out'.buf[Len(out'.buf)] = NL
          /\ E' = E]_vars

\* a document of an empty row and a row of two bytes was serialized
SerializationWitness ==
    /\ pc = "doc_serialized"
    /\ E.numrows = 2
    /\ size(E.row[1]) = 0 /\ size(E.row[2]) = 2
    /\ out.buflen = 4
    /\ out.buf = <<NL, E.row[2].chars[1], E.row[2].chars[2], NL>>

\* rows, dirty and cursor are as they were
SameDocumentAndCursor ==
    /\ E'.row = E.row /\ E'.numrows = E.numrows /\ E'.dirty = E.dirty
    /\ E'.cx = E.cx /\ E'.cy = E.cy

\* C25: no key event consumed inside the save prompt changes rows, dirty,
\* cx or cy; the prompt returns only on ESC (no input, the buffer dropped)
\* or on Enter with a buffer that is not empty (Enter on an empty buffer
\* keeps prompting); Backspace, Ctrl-H and Delete remove the last byte
\* collected and do nothing on an empty buffer; navigation keys and control
\* bytes are ignored.
PromptFrame ==
    [][InPrompt(pc) =>
          /\ InPrompt(pc') => SameDocumentAndCursor
          /\ ~InPrompt(pc') =>
                \/ /\ PromptEscape
                   /\ E'.filename = NULL /\ buf' = << >>
                   /\ SameDocumentAndCursor
                \/ /\ PromptEnter
                   /\ Len(buf) # 0 /\ E'.filename = buf
                   /\ E'.row = E.row /\ E'.cx = E.cx /\ E'.cy = E.cy
          /\ PromptEnterEmpty => (InPrompt(pc') /\ buf' = buf)
          /\ PromptDelete =>
                /\ InPrompt(pc')
                /\ buf' = IF buf = << >> THEN buf ELSE SubSeq(buf, 1, Len(buf) - 1)
          /\ PromptIgnored => (InPrompt(pc') /\ buf' = buf)
          /\ \A c \in {TAB, CTRL_L, CTRL_Q, CTRL_S, NUL, ARROW_UP, ARROW_DOWN, ARROW_LEFT,
                       ARROW_RIGHT, HOME_KEY, END_KEY, PAGE_UP, PAGE_DOWN} :
                PromptCase(c) = "ignored"
          /\ \A c \in {BACKSPACE, CTRL_H, DEL_KEY} : PromptCase(c) = "delete"]_vars

\* the prompt of an edited document has collected a byte
PromptFrameWitness ==
    /\ pc = "prompt_key"
    /\ buf = <<97>>
    /\ E.numrows > 0 /\ E.dirty > 0
    /\ E.cx > 0

Max(a, b) == IF a > b THEN a ELSE b

\* C26: PageUp sets cy to rowoff and applies Up screenrows times, ending at
\* cy = max(0, rowoff - screenrows); PageDown sets cy to
\* min(rowoff + screenrows - 1, numrows) and applies Down screenrows times,
\* ending at cy = min(numrows, that value + screenrows); in both cases cx
\* ends at most the length of the final row and the document is unchanged.
PageKeys ==
    pc = "key" =>
        LET up == PageMove(E, PAGE_UP)
            down == PageMove(E, PAGE_DOWN)
            edge == Min(E.rowoff + E.screenrows - 1, E.numrows)
        IN /\ up.cy = Max(0, E.rowoff - E.screenrows)
           /\ down.cy = Min(E.numrows, edge + E.screenrows)
           /\ \A e2 \in {up, down} :
                 /\ e2.cx = Min(E.cx, RowLen(e2))
                 /\ e2.row = E.row /\ e2.numrows = E.numrows /\ e2.dirty = E.dirty

\* C27: a frame has exactly screenrows text rows; for screen row y with
\* file row y + rowoff < numrows the text is the rendered bytes at indices
\* [coloff, min(rsize, coloff + screencols)), empty when coloff >= rsize;
\* for y + rowoff >= numrows in a document with rows it is the filler '~'.
RowSlices ==
    Rendered =>
        LET rows == editorDrawRows(E)
        IN /\ Len(rows) = E.screenrows
           /\ \A y \in 0..(E.screenrows - 1) :
                 LET filerow == y + E.rowoff
                 IN IF filerow < E.numrows
                    THEN LET render == E.row[filerow + 1].render
                             end == Min(Len(render), E.coloff + E.screencols)
                         IN /\ rows[y + 1] = [i \in 1..(end - E.coloff) |-> render[E.coloff + i]]
                            /\ E.coloff >= Len(render) => rows[y + 1] = << >>
                    ELSE E.numrows > 0 => rows[y + 1] = Tilde

\* the screen of two text rows drawn scrolled two columns to the right: the
\* end of the tab of the cursor's row and nothing of the empty row under it
RowSlicesWitness ==
    /\ pc = "key"
    /\ E.screenrows = 2 /\ E.screencols = 3 /\ E.coloff = 2 /\ E.rowoff = 0
    /\ E.numrows = 2
    /\ editorDrawRows(E)[1] = <<SPACE, SPACE>>
    /\ editorDrawRows(E)[2] = << >>

\* the left and the right part of the status line
StatusLeft(e) ==
    ((((IF e.filename = NULL THEN NoName ELSE SubSeq(e.filename, 1, Min(Len(e.filename), 20)))
        \o StatusDash) \o Decimal(e.numrows)) \o StatusLines)
        \o (IF e.dirty # 0 THEN StatusModified ELSE << >>)
StatusRight(e) == (Decimal(e.cy + 1) \o Slash) \o Decimal(e.numrows)

\* C28: in every frame the text of the status line is exactly screencols
\* columns wide (the left part cut to screencols, then spaces); the left
\* part shows the filename or "[No Name]", the number of rows and the
\* modified marker exactly when dirty # 0; the right part
\* "<cy + 1>/<numrows>" is there, ending at the last column, whenever the
\* left and the right part together fit in screencols.
StatusLine ==
    Rendered =>
        LET text == editorDrawStatusBar(E)
            left == StatusLeft(E)
            right == StatusRight(E)
            cols == E.screencols
            shown == Min(Len(left), cols)
        IN /\ Len(text) = cols
           /\ SubSeq(text, 1, shown) = SubSeq(left, 1, shown)
           /\ IF Len(left) + Len(right) <= cols
              THEN text = (left \o Spaces(cols - Len(left) - Len(right))) \o right
              ELSE text = SubSeq(left, 1, shown) \o Spaces(cols - shown)

\* the status line of an edited document with a name on the screen of 27
\* columns: name, one row, the marker, two spaces and "1/1"
StatusLineWitness ==
    /\ pc = "key"
    /\ E.screencols = 27
    /\ E.filename = <<97>> /\ E.dirty # 0 /\ E.numrows = 1 /\ E.cy = 0
    /\ editorDrawStatusBar(E) =
          (((<<97>> \o StatusDash) \o <<49>>) \o StatusLines) \o StatusModified
             \o <<SPACE, SPACE, 49, 47, 49>>

\* C29: in every reachable state the Delete key leaves (cy, cx) as it is;
\* with cx < row length it removes the byte at index cx; at the end of a
\* row that is not the last it joins the next row onto the current one; at
\* the end of the last row or past the end of the file it changes neither
\* the document nor the cursor.
DeleteForward ==
    pc = "key" =>
        /\ DeleteKeyInBounds(E, DEL_KEY)
        /\ LET e2 == DeleteKey(E, DEL_KEY)
               t == Texts(E)
           IN /\ e2.cy = E.cy /\ e2.cx = E.cx
              /\ (E.cy < E.numrows /\ E.cx < RowLen(E)) =>
                    Texts(e2) = [t EXCEPT ![E.cy + 1] = Without(@, E.cx)]
              /\ (E.cy < E.numrows - 1 /\ E.cx = RowLen(E)) =>
                    Texts(e2) = [i \in 1..(E.numrows - 1) |->
                                    IF i <= E.cy THEN t[i]
                                    ELSE IF i = E.cy + 1 THEN t[i] \o t[i + 1]
                                    ELSE t[i + 1]]
              /\ ((E.cy = E.numrows - 1 /\ E.cx = RowLen(E)) \/ E.cy = E.numrows) =>
                    e2 = E

\* a printable byte b is typed and Backspace pressed: rows and cursor are
\* what they were
RoundTripOf(b) ==
    LET e2 == DeleteKey(editorInsertChar(E, b), BACKSPACE)
    IN /\ e2.numrows = E.numrows
       /\ Texts(e2) = Texts(E)
       /\ e2.cy = E.cy /\ e2.cx = E.cx

EnterBackspaceOf(e) ==
    LET e2 == DeleteKey(editorInsertNewLine(e), BACKSPACE)
    IN /\ e2.numrows = e.numrows
       /\ Texts(e2) = Texts(e)
       /\ e2.cy = e.cy /\ e2.cx = e.cx

\* C31 as stated: in every reachable state, pressing Enter and then
\* Backspace restores the rows (their number and content) and the cursor
\* (cy, cx) to what they were before Enter.
EnterBackspaceAnywhere ==
    pc = "key" => (InsertNewLineInBounds(E) /\ EnterBackspaceOf(E))

\* C31 amended: the same in every reachable state where the cursor is on a
\* row (cy < numrows and cx <= length of row cy); past the end of the file
\* Enter appends an empty row, which Backspace leaves in the document.
EnterBackspace ==
    (pc = "key" /\ E.cy < E.numrows /\ E.cx <= RowLen(E)) => EnterBackspaceOf(E)

\* a row is about to be split between a tab and a byte and joined again
EnterBackspaceWitness ==
    /\ pc = "key"
    /\ E.cy < E.numrows
    /\ E.row[E.cy + 1].chars = <<TAB, 97>> /\ E.cx = 1
    /\ Texts(editorInsertNewLine(E)) =
          (SubSeq(Texts(E), 1, E.cy) \o << <<TAB>>, <<97>> >>)
             \o SubSeq(Texts(E), E.cy + 2, E.numrows)
    /\ Texts(DeleteKey(editorInsertNewLine(E), BACKSPACE)) = Texts(E)

\* the control bytes that are no command of editorProcessKeypress
Unbound == {c \in Bytes : c < SPACE /\ c \notin {CR, CTRL_Q, CTRL_S, CTRL_H, CTRL_L, ESC}}

\* C32: key processing puts a byte into a row only for a printable byte
\* (0x20 <= c < 0x7F); a control byte (< 0x20) that is no command leaves the
\* rows and dirty unchanged.
OnlyPrintableInserted ==
    [][\A c \in Bytes :
          KeyDefaultOf(c) =>
              /\ E'.row # E.row => c \in Printable
              /\ c \in Unbound => (E'.row = E.row /\ E'.dirty = E.dirty)]_vars

\* C33: whenever dirty = 0 one quit command makes the process exit at once,
\* without a warning and whatever keys came before: the step of the quit
\* command ends in exit and changes nothing of the editor state.
QuitWhenClean ==
    [][(KeyQuit /\ E.dirty = 0) => (pc' = "exit" /\ E' = E)]_vars

\* the process has left on a single quit command after an edited document
\* was saved
QuitWhenCleanWitness ==
    /\ pc = "exit"
    /\ quits = 1
    /\ E.dirty = 0
    /\ E.numrows > 0
    /\ IsWritten(E.statusmsg)

\* a step of editorRefreshScreen, in the main loop or in the prompt
RefreshStep == Refresh \/ PromptRefresh

\* rows, dirty, filename and message of e2 are those of E
KeepsDocument(e2) ==
    /\ e2.row = E.row /\ e2.numrows = E.numrows
    /\ e2.dirty = E.dirty /\ e2.filename = E.filename
    /\ e2.statusmsg = E.statusmsg

\* C34: the arrow keys, Home, End, PageUp, PageDown, Ctrl-L, ESC and every
\* screen refresh leave the rows (their number and content), dirty and the
\* filename as they are; a refresh changes only rx, rowoff and coloff (the
\* prompt sets its message before it), never cx or cy.
NavigationKeepsDocument ==
    /\ [](pc = "key" =>
             /\ \A k \in {ARROW_UP, ARROW_DOWN, ARROW_LEFT, ARROW_RIGHT} :
                   MoveCursorInBounds(E, k) /\ KeepsDocument(editorMoveCursor(E, k))
             /\ \A c \in {PAGE_UP, PAGE_DOWN} : KeepsDocument(PageMove(E, c))
             /\ KeepsDocument(EndKey(E)))
    /\ [][/\ (KeyHome \/ KeyNothing) => (pc' # "ub" /\ KeepsDocument(E'))
          /\ RefreshStep =>
                /\ pc' # "ub"
                /\ E' = [E EXCEPT !.rx = E'.rx, !.rowoff = E'.rowoff, !.coloff = E'.coloff,
                                  !.statusmsg = IF pc = "prompt_refresh" THEN E'.statusmsg ELSE @]]_vars

\* an edited document with a name after navigation and refresh: the cursor
\* is on the second row behind a tab and the window has followed it down
\* and to the right
NavigationKeepsDocumentWitness ==
    /\ pc = "key"
    /\ E.dirty > 0 /\ E.filename # NULL
    /\ E.numrows = 2 /\ E.cy = 1 /\ E.cx = 1
    /\ E.row[2].chars = <<TAB>>
    /\ E.rx = 4 /\ E.rowoff = 1 /\ E.coloff = 3

\* C35: in every reachable state every row access of key processing and of
\* rendering uses an index in [0, numrows): the split branch of Enter and
\* the branches of Backspace and Delete run with 0 <= cy < numrows, the join
\* reads row cy - 1 with cy >= 1, Left and End read a row that exists, a
\* byte is inserted at a column in [0, size] and deleted at one in
\* [0, size), and the frame is drawn from row indices >= 0.
RowIndexSafety ==
    /\ pc # "ub"
    /\ pc = "key" =>
          /\ E.cy >= 0
          /\ InsertNewLineInBounds(E)
          /\ InsertCharInBounds(E)
          /\ \A c \in {BACKSPACE, CTRL_H, DEL_KEY} : DeleteKeyInBounds(E, c)
          /\ \A k \in {ARROW_UP, ARROW_DOWN, ARROW_LEFT, ARROW_RIGHT} : MoveCursorInBounds(E, k)
          /\ E.cy < E.numrows => (0 <= E.cx /\ E.cx <= size(E.row[E.cy + 1]))
    /\ pc \in {"refresh", "prompt_refresh"} =>
          /\ E.cy >= 0 /\ E.rowoff >= 0
          /\ ScrollInBounds(E)

\* ------------------------------------------------------------ the viewer (src/kilo.c)
\* the loop of editorRowCxToRx
RECURSIVE kilo_CxToRxLoop(_, _, _, _)
kilo_CxToRxLoop(chars, cx, j, rx) ==
    IF j >= cx THEN rx
    ELSE IF CharAt(chars, j) = TAB
         THEN kilo_CxToRxLoop(chars, cx, j + 1, rx + (ATTO_TAB_STOP - 1) - (rx % ATTO_TAB_STOP) + 1)
         ELSE kilo_CxToRxLoop(chars, cx, j + 1, rx + 1)

kilo_editorRowCxToRx(row, cx) == kilo_CxToRxLoop(row.chars, cx, 0, 0)

\* while(idx % ATTO_TAB_STOP != 0) row->render[idx++] = ' '
RECURSIVE kilo_TabPad(_)
kilo_TabPad(render) ==
    IF Len(render) % ATTO_TAB_STOP # 0 THEN kilo_TabPad(render \o <<SPACE>>) ELSE render

\* the second loop of editorUpdateRow
RECURSIVE kilo_UpdateRowLoop(_, _, _)
kilo_UpdateRowLoop(chars, j, render) ==
    IF j >= Len(chars) THEN render
    ELSE IF chars[j + 1] = TAB
         THEN kilo_UpdateRowLoop(chars, j + 1, kilo_TabPad(render \o <<SPACE>>))
         ELSE kilo_UpdateRowLoop(chars, j + 1, render \o <<chars[j + 1]>>)

kilo_editorUpdateRow(row) == [row EXCEPT !.render = kilo_UpdateRowLoop(row.chars, 0, << >>)]

kilo_editorAppendRow(k, s) ==
    [k EXCEPT !.row = Append(@, kilo_editorUpdateRow([chars |-> s, render |-> << >>])),
              !.numrows = @ + 1]

\* while(linelen > 0 && (line[linelen - 1] == '\n' || line[linelen - 1] == '\r'))
RECURSIVE kilo_StripEol(_)
kilo_StripEol(line) ==
    IF Len(line) > 0 /\ line[Len(line)] \in {NL, CR}
    THEN kilo_StripEol(SubSeq(line, 1, Len(line) - 1))
    ELSE line

\* the while loop of editorOpen over the unread part f of the stream
RECURSIVE kilo_OpenLoop(_, _)
kilo_OpenLoop(k, f) ==
    IF f = << >> THEN k
    ELSE kilo_OpenLoop(kilo_editorAppendRow(k, kilo_StripEol(SubSeq(f, 1, LineLen(f, 0)))),
                       AfterLine(f))

\* the getline call before the loop reads a line that is never appended
kilo_editorOpen(k, filename, f) ==
    kilo_OpenLoop([k EXCEPT !.filename = filename], AfterLine(f))

kilo_editorScroll(k) ==
    LET k1 == [k EXCEPT !.rx = IF k.cy < k.numrows
                               THEN kilo_editorRowCxToRx(k.row[k.cy + 1], k.cx)
                               ELSE 0]
        k2 == [k1 EXCEPT !.rowoff = IF k1.cy < @ THEN k1.cy ELSE @]
        k3 == [k2 EXCEPT !.rowoff = IF k2.cy >= @ + k2.screenrows
                                    THEN k2.cy - k2.screenrows + 1 ELSE @]
        k4 == [k3 EXCEPT !.coloff = IF k3.rx < @ THEN k3.rx ELSE @]
    IN [k4 EXCEPT !.coloff = IF k4.rx >= @ + k4.screencols
                             THEN k4.rx - k4.screencols + 1 ELSE @]

\* the state editorRefreshScreen changes is the state editorScroll changes
kilo_editorRefreshScreen(k) == kilo_editorScroll(k)

\* the switch of editorMoveCursor
kilo_MoveCursorSwitch(k, key) ==
    LET row == k.cy < k.numrows
    IN CASE key = ARROW_LEFT ->
              IF k.cx # 0 THEN [k EXCEPT !.cx = @ - 1]
              ELSE IF k.cy > 0 THEN [k EXCEPT !.cy = @ - 1, !.cx = size(k.row[k.cy])]
              ELSE k
         [] key = ARROW_RIGHT ->
              IF row /\ k.cx < size(k.row[k.cy + 1]) THEN [k EXCEPT !.cx = @ + 1]
              ELSE IF row /\ k.cx = size(k.row[k.cy + 1]) THEN [k EXCEPT !.cy = @ + 1, !.cx = 0]
              ELSE k
         [] key = ARROW_UP -> IF k.cy # 0 THEN [k EXCEPT !.cy = @ - 1] ELSE k
         [] key = ARROW_DOWN -> IF k.cy < k.numrows THEN [k EXCEPT !.cy = @ + 1] ELSE k
         [] OTHER -> k

\* editorMoveCursor without the snap of cx to the end of the new row
kilo_editorMoveCursorNoSnap(k, key) == kilo_MoveCursorSwitch(k, key)

kilo_editorMoveCursor(k, key) ==
    LET k1 == kilo_MoveCursorSwitch(k, key)
        rowlen == IF k1.cy >= k1.numrows THEN 0 ELSE size(k1.row[k1.cy + 1])
    IN IF k1.cx > rowlen THEN [k1 EXCEPT !.cx = rowlen] ELSE k1

\* while(times--) editorMoveCursor(key)
RECURSIVE kilo_MoveTimes(_, _, _)
kilo_MoveTimes(k, key, times) ==
    IF times = 0 THEN k ELSE kilo_MoveTimes(kilo_editorMoveCursor(k, key), key, times - 1)

\* editorProcessKeypress for a key c other than Ctrl-Q: the switch has no
\* default case
kilo_editorProcessKeypress(k, c) ==
    CASE c = HOME_KEY -> [k EXCEPT !.cx = 0]
      [] c = END_KEY -> IF k.cy < k.numrows THEN [k EXCEPT !.cx = size(k.row[k.cy + 1])] ELSE k
      [] c = PAGE_UP -> kilo_MoveTimes([k EXCEPT !.cy = k.rowoff], ARROW_UP, k.screenrows)
      [] c = PAGE_DOWN ->
            LET y == k.rowoff + k.screenrows - 1
            IN kilo_MoveTimes([k EXCEPT !.cy = IF y > k.numrows THEN k.numrows ELSE y],
                              ARROW_DOWN, k.screenrows)
      [] c \in {ARROW_UP, ARROW_DOWN, ARROW_LEFT, ARROW_RIGHT} -> kilo_editorMoveCursor(k, c)
      [] OTHER -> k

kilo_initEditor(ws) ==
    [cx |-> 0, cy |-> 0, rx |-> 0, rowoff |-> 0, coloff |-> 0,
     numrows |-> 0, row |-> << >>, filename |-> NULL, statusmsg |-> MsgEmpty,
     screenrows |-> ws[1] - 2, screencols |-> ws[2]]

\* the message main sets
kilo_MsgHelp == Msg("HELP : Ctrl-q = quit", << >>)

\* every row the key reads is a row of the document: Left at the start of a
\* row reads the size of row cy - 1
kilo_ProcessKeypressInBounds(k, c) ==
    (c = ARROW_LEFT /\ k.cx = 0 /\ k.cy > 0) => k.cy - 1 < k.numrows
\* editorRowCxToRx reads chars[0 .. cx - 1]; chars[size] is allocated
kilo_ScrollInBounds(k) == k.cy < k.numrows => k.cx <= size(k.row[k.cy + 1]) + 1

\* ------------------------------------------------------------ viewer and editor side by side
\* the navigation keys and some of the other keys
NavKeys == {ARROW_LEFT, ARROW_RIGHT, ARROW_UP, ARROW_DOWN, HOME_KEY, END_KEY, PAGE_UP, PAGE_DOWN}
OtherKeys == {97, TAB, CR, BACKSPACE, DEL_KEY, CTRL_S, CTRL_L, ESC}

\* the files the two programs are started on
ViewFiles == ArgFiles \cup {<<97, NL, 97, 97, NL, NL, TAB, 97, NL>>}

\* editorProcessKeypress of the editor for a navigation key c
NavKey(e, c) ==
    CASE KeyCase(c) = "home" -> [e EXCEPT !.cx = 0]
      [] KeyCase(c) = "end" -> EndKey(e)
      [] KeyCase(c) = "page" -> PageMove(e, c)
      [] KeyCase(c) = "arrow" -> editorMoveCursor(e, c)
NavKeyInBounds(e, c) == KeyCase(c) = "arrow" => MoveCursorInBounds(e, c)

\* both programs started on the same terminal and the same command line
InitViewer ==
    /\ \E ws \in AnyWinSizes : E = initEditor(ws) /\ out = kilo_initEditor(ws)
    /\ quit_times = ATTO_QUIT_TIMES
    /\ pc = "view_start"
    /\ buf = << >>
    /\ quits = 0
    /\ edited = FALSE
    /\ inp \in {NoInput} \cup {Input(TRUE, << >>, f, 0, 0) : f \in ViewFiles}

\* main of both up to the loop
ViewStart ==
    /\ pc = "view_start"
    /\ E' = [(IF inp.arg THEN editorOpen(E, ArgName, inp.file) ELSE E)
                EXCEPT !.statusmsg = MsgHelp]
    /\ out' = [(IF inp.arg THEN kilo_editorOpen(out, ArgName, inp.file) ELSE out)
                EXCEPT !.statusmsg = kilo_MsgHelp]
    /\ pc' = "view_refresh"
    /\ UNCHANGED <<quit_times, buf, quits, edited, inp>>

\* editorRefreshScreen of both
ViewRefresh ==
    /\ pc = "view_refresh"
    /\ IF ScrollInBounds(E) /\ kilo_ScrollInBounds(out)
       THEN /\ E' = editorRefreshScreen(E)
            /\ out' = kilo_editorRefreshScreen(out)
            /\ pc' = "view_key"
       ELSE pc' = "ub" /\ UNCHANGED <<E, out>>
    /\ UNCHANGED <<quit_times, buf, quits, edited, inp>>

\* the same navigation key to both (the state space explored ends where a
\* cursor is more than MaxBytes + 1 rows down)
ViewNavOf(c) ==
    /\ pc = "view_key"
    /\ IF NavKeyInBounds(E, c) /\ kilo_ProcessKeypressInBounds(out, c)
       THEN /\ NavKey(E, c).cy <= MaxBytes + 1
            /\ kilo_editorProcessKeypress(out, c).cy <= MaxBytes + 1
            /\ E' = NavKey(E, c)
            /\ out' = kilo_editorProcessKeypress(out, c)
            /\ pc' = "view_refresh"
       ELSE pc' = "ub" /\ UNCHANGED <<E, out>>
    /\ UNCHANGED <<quit_times, buf, quits, edited, inp>>

ViewNav == \E c \in NavKeys : ViewNavOf(c)

\* the viewer alone from here on: a key that is no navigation key, or any
\* key after such a key
ViewerKeyOf(c) ==
    /\ \/ pc = "view_key" /\ c \in OtherKeys
       \/ pc = "viewer_key"
    /\ IF kilo_ProcessKeypressInBounds(out, c)
       THEN /\ kilo_editorProcessKeypress(out, c).cy <= MaxBytes + 1
            /\ out' = kilo_editorProcessKeypress(out, c)
            /\ pc' = "viewer_refresh"
       ELSE pc' = "ub" /\ UNCHANGED out
    /\ UNCHANGED <<E, quit_times, buf, quits, edited, inp>>

ViewerKey == \E c \in NavKeys \cup OtherKeys : ViewerKeyOf(c)

ViewerRefresh ==
    /\ pc = "viewer_refresh"
    /\ IF kilo_ScrollInBounds(out)
       THEN out' = kilo_editorRefreshScreen(out) /\ pc' = "viewer_key"
       ELSE pc' = "ub" /\ UNCHANGED out
    /\ UNCHANGED <<E, quit_times, buf, quits, edited, inp>>

\* Ctrl-Q in the viewer: exit(0)
ViewerQuit ==
    /\ pc \in {"view_key", "viewer_key"}
    /\ pc' = "exit"
    /\ UNCHANGED <<E, quit_times, buf, quits, edited, inp, out>>

NextViewer ==
    \/ ViewStart
    \/ ViewRefresh
    \/ ViewNav
    \/ ViewerKey
    \/ ViewerRefresh
    \/ ViewerQuit

SpecViewer == InitViewer /\ [][NextViewer]_vars

\* the state the two programs share: rows, cursor and window
SameView(e, k) ==
    /\ e.row = k.row /\ e.numrows = k.numrows
    /\ e.cx = k.cx /\ e.cy = k.cy /\ e.rx = k.rx
    /\ e.rowoff = k.rowoff /\ e.coloff = k.coloff

\* C36: started on the same file and the same screen and given the same
\* navigation keys (arrows, Home, End, PageUp, PageDown), the viewer and the
\* editor go through the same states (rows, cx, cy, rx, rowoff, coloff), as
\* long as neither reads a row that does not exist, which the same keys make
\* both do; and no key event of the viewer changes its rows.
ViewerEquivalence ==
    /\ [](pc \in {"view_refresh", "view_key"} => SameView(E, out))
    /\ [](pc = "view_key" =>
             \A c \in NavKeys : NavKeyInBounds(E, c) <=> kilo_ProcessKeypressInBounds(out, c))
    /\ [][pc # "view_start" => (out'.row = out.row /\ out'.numrows = out.numrows)]_vars

\* both programs have followed the cursor to the last row of a file of
\* three rows and behind its tab, the window scrolled down and to the right
ViewerEquivalenceWitness ==
    /\ pc = "view_key"
    /\ out.numrows = 3 /\ out.cy = 2 /\ out.cx = 1 /\ out.rx = 4
    /\ out.row[3].chars = <<TAB, 97>>
    /\ out.rowoff > 0 /\ out.coloff > 0
    /\ E.cy = 2 /\ E.rx = 4 /\ E.rowoff = out.rowoff /\ E.coloff = out.coloff

====
